---- MODULE Spec2Model ----
(***************************************************************************)
(* The Checkout connector adapter                                          *)
(* (crates/hyperswitch_connectors/src/connectors/checkout.rs).             *)
(*                                                                         *)
(* The adapter is a set of synchronous handlers over their inputs.  A      *)
(* state of the model is the last handler invoked (op), its input (data),  *)
(* the outbound URL built for a payment sync (request), the raw response   *)
(* handed back by the transport (res), what the handler wrote to the       *)
(* connector event (event: the struct name given to parse_struct and the   *)
(* typed body logged) and the value the handler returned (result).         *)
(*                                                                         *)
(* What outlives a call is the adapter instance (adapter), the lazily      *)
(* built table of supported payment methods (tables) and, when handlers    *)
(* run side by side on the one instance, the invocation each thread is in  *)
(* (calls).                                                                *)
(***************************************************************************)
EXTENDS Integers, Sequences, FiniteSets, TLC

VARIABLES op, data, request, res, result, event, adapter, tables, calls

vars == <<op, data, request, res, result, event, adapter, tables, calls>>

(***************************************************************************)
(* Rust values: Result, Option.                                            *)
(***************************************************************************)
Ok(v) == [tag |-> "Ok", val |-> v]

Err(e) == [tag |-> "Err", err |-> e]

None == [some |-> FALSE]

Some(v) == [some |-> TRUE, val |-> v]

(***************************************************************************)
(* Strings.                                                                *)
(***************************************************************************)
StartsWith(s, p) == Len(s) >= Len(p) /\ SubSeq(s, 1, Len(p)) = p

EndsWith(s, p) == Len(s) >= Len(p) /\ SubSeq(s, Len(s) - Len(p) + 1, Len(s)) = p

\* [String]::join(sep)
RECURSIVE join(_, _)
join(list, sep) ==
    IF Len(list) = 0 THEN ""
    ELSE IF Len(list) = 1 THEN list[1]
    ELSE list[1] \o sep \o join(Tail(list), sep)

(***************************************************************************)
(* Response bodies.  A body is the empty byte string, bytes that are no    *)
(* JSON document, or a JSON document; a document is a tagged value.        *)
(***************************************************************************)
JNull == [t |-> "null"]

JStr(s) == [t |-> "str", str |-> s]

JNum(n) == [t |-> "num", num |-> n]

JBool(b) == [t |-> "bool", bool |-> b]

JArr(items) == [t |-> "arr", items |-> items]

JObj(fields) == [t |-> "obj", fields |-> fields]

EmptyBody == [kind |-> "empty"]

MalformedBody == [kind |-> "malformed"]

JsonBody(doc) == [kind |-> "json", doc |-> doc]

\* The object of the keys of choice, a key being left out when its choice is None
JObjOf(choice) ==
    JObj([k \in {x \in DOMAIN choice : choice[x].some} |-> choice[k].val])

HasKey(obj, k) == k \in DOMAIN obj.fields

\* serde: Option<String> field (a missing key and null both give None)
ParseOptString(obj, k) ==
    IF ~HasKey(obj, k) \/ obj.fields[k].t = "null" THEN Ok(None)
    ELSE IF obj.fields[k].t = "str" THEN Ok(Some(obj.fields[k].str))
    ELSE Err("invalid type")

\* serde: String field (required)
ParseString(obj, k) ==
    IF HasKey(obj, k) /\ obj.fields[k].t = "str" THEN Ok(obj.fields[k].str)
    ELSE Err("invalid type")

\* serde: Option<Vec<String>> field
ParseOptStringVec(obj, k) ==
    IF ~HasKey(obj, k) \/ obj.fields[k].t = "null" THEN Ok(None)
    ELSE IF obj.fields[k].t = "arr"
            /\ \A i \in DOMAIN obj.fields[k].items : obj.fields[k].items[i].t = "str"
         THEN Ok(Some([i \in DOMAIN obj.fields[k].items |-> obj.fields[k].items[i].str]))
    ELSE Err("invalid type")

(***************************************************************************)
(* ConnectorErrorTypeMapping::get_connector_error_type: the match arms in  *)
(* source order.                                                           *)
(***************************************************************************)
ConnectorErrorTypes == {"UserError", "BusinessError", "TechnicalError", "UnknownError"}

ErrorTypeArms == <<
    <<"action_failure_limit_exceeded", "BusinessError">>, <<"address_invalid", "UserError">>,
    <<"amount_exceeds_balance", "BusinessError">>, <<"amount_invalid", "UserError">>,
    <<"api_calls_quota_exceeded", "TechnicalError">>,
    <<"billing_descriptor_city_invalid", "UserError">>,
    <<"billing_descriptor_city_required", "UserError">>,
    <<"billing_descriptor_name_invalid", "UserError">>,
    <<"billing_descriptor_name_required", "UserError">>,
    <<"business_invalid", "BusinessError">>, <<"business_settings_missing", "BusinessError">>,
    <<"capture_value_greater_than_authorized", "BusinessError">>,
    <<"capture_value_greater_than_remaining_authorized", "BusinessError">>,
    <<"card_authorization_failed", "UserError">>, <<"card_disabled", "UserError">>,
    <<"card_expired", "UserError">>, <<"card_expiry_month_invalid", "UserError">>,
    <<"card_expiry_month_required", "UserError">>, <<"card_expiry_year_invalid", "UserError">>,
    <<"card_expiry_year_required", "UserError">>, <<"card_holder_invalid", "UserError">>,
    <<"card_not_found", "UserError">>, <<"card_number_invalid", "UserError">>,
    <<"card_number_required", "UserError">>, <<"channel_details_invalid", "BusinessError">>,
    <<"channel_url_missing", "BusinessError">>, <<"charge_details_invalid", "BusinessError">>,
    <<"city_invalid", "BusinessError">>, <<"country_address_invalid", "UserError">>,
    <<"country_invalid", "UserError">>, <<"country_phone_code_invalid", "UserError">>,
    <<"country_phone_code_length_invalid", "UserError">>, <<"currency_invalid", "UserError">>,
    <<"currency_required", "UserError">>, <<"customer_already_exists", "BusinessError">>,
    <<"customer_email_invalid", "UserError">>, <<"customer_id_invalid", "BusinessError">>,
    <<"customer_not_found", "BusinessError">>, <<"customer_number_invalid", "UserError">>,
    <<"customer_plan_edit_failed", "BusinessError">>,
    <<"customer_plan_id_invalid", "BusinessError">>, <<"cvv_invalid", "UserError">>,
    <<"email_in_use", "BusinessError">>, <<"email_invalid", "UserError">>,
    <<"email_required", "UserError">>, <<"endpoint_invalid", "TechnicalError">>,
    <<"expiry_date_format_invalid", "UserError">>, <<"fail_url_invalid", "TechnicalError">>,
    <<"first_name_required", "UserError">>, <<"last_name_required", "UserError">>,
    <<"ip_address_invalid", "UserError">>, <<"issuer_network_unavailable", "TechnicalError">>,
    <<"metadata_key_invalid", "BusinessError">>, <<"parameter_invalid", "UserError">>,
    <<"password_invalid", "UserError">>, <<"payment_expired", "BusinessError">>,
    <<"payment_invalid", "BusinessError">>, <<"payment_method_invalid", "UserError">>,
    <<"payment_source_required", "UserError">>, <<"payment_type_invalid", "UserError">>,
    <<"phone_number_invalid", "UserError">>, <<"phone_number_length_invalid", "UserError">>,
    <<"previous_payment_id_invalid", "BusinessError">>,
    <<"recipient_account_number_invalid", "BusinessError">>,
    <<"recipient_account_number_required", "UserError">>,
    <<"recipient_dob_required", "UserError">>, <<"recipient_last_name_required", "UserError">>,
    <<"recipient_zip_invalid", "UserError">>, <<"recipient_zip_required", "UserError">>,
    <<"recurring_plan_exists", "BusinessError">>,
    <<"recurring_plan_not_exist", "BusinessError">>,
    <<"recurring_plan_removal_failed", "BusinessError">>, <<"request_invalid", "UserError">>,
    <<"request_json_invalid", "UserError">>, <<"risk_enabled_required", "BusinessError">>,
    <<"server_api_not_allowed", "TechnicalError">>, <<"source_email_invalid", "UserError">>,
    <<"source_email_required", "UserError">>, <<"source_id_invalid", "BusinessError">>,
    <<"source_id_or_email_required", "UserError">>, <<"source_id_required", "UserError">>,
    <<"source_id_unknown", "BusinessError">>, <<"source_invalid", "BusinessError">>,
    <<"source_or_destination_required", "BusinessError">>,
    <<"source_token_invalid", "BusinessError">>, <<"source_token_required", "UserError">>,
    <<"source_token_type_required", "UserError">>,
    <<"source_token_type_invalid", "BusinessError">>, <<"source_type_required", "UserError">>,
    <<"sub_entities_count_invalid", "BusinessError">>,
    <<"success_url_invalid", "BusinessError">>, <<"3ds_malfunction", "TechnicalError">>,
    <<"3ds_not_configured", "BusinessError">>, <<"3ds_not_enabled_for_card", "BusinessError">>,
    <<"3ds_not_supported", "BusinessError">>, <<"3ds_payment_required", "BusinessError">>,
    <<"token_expired", "BusinessError">>, <<"token_in_use", "BusinessError">>,
    <<"token_invalid", "BusinessError">>, <<"token_required", "UserError">>,
    <<"token_type_required", "UserError">>, <<"token_used", "BusinessError">>,
    <<"void_amount_invalid", "BusinessError">>, <<"wallet_id_invalid", "BusinessError">>,
    <<"zip_invalid", "UserError">>, <<"processing_key_required", "BusinessError">>,
    <<"processing_value_required", "BusinessError">>,
    <<"3ds_version_invalid", "BusinessError">>,
    <<"3ds_version_not_supported", "BusinessError">>, <<"processing_error", "TechnicalError">>,
    <<"service_unavailable", "TechnicalError">>, <<"token_type_invalid", "UserError">>,
    <<"token_data_invalid", "UserError">>
>>

ArmCodes == {ErrorTypeArms[i][1] : i \in DOMAIN ErrorTypeArms}

\* a plausible slip: the message looked up when the code is in no arm
get_connector_error_type_by_message(error_code, error_message) ==
    LET key == IF \E i \in DOMAIN ErrorTypeArms : ErrorTypeArms[i][1] = error_code
               THEN error_code ELSE error_message
        hits == {i \in DOMAIN ErrorTypeArms : ErrorTypeArms[i][1] = key}
    IN  IF hits = {} THEN "UnknownError"
        ELSE ErrorTypeArms[CHOOSE i \in hits : \A j \in hits : i <= j][2]

get_connector_error_type(error_code, error_message) ==
    LET hits == {i \in DOMAIN ErrorTypeArms : ErrorTypeArms[i][1] = error_code}
    IN  IF hits = {} THEN "UnknownError"
        ELSE ErrorTypeArms[CHOOSE i \in hits : \A j \in hits : i <= j][2]

(***************************************************************************)
(* Error responses (ConnectorCommon::build_error_response).                *)
(***************************************************************************)
NO_ERROR_CODE == "No error code"

NO_ERROR_MESSAGE == "No error message"

\* impl From<String> for utils::ErrorCodeAndMessage
ErrorCodeAndMessageFrom(error) == [error_code |-> error, error_message |-> error]

\* the order of ConnectorErrorType used by the priority sort
ErrorTypeRank(error_type) ==
    CASE error_type = "UnknownError" -> 1
      [] error_type = "UserError" -> 2
      [] error_type = "BusinessError" -> 3
      [] error_type = "TechnicalError" -> 4

\* a plausible slip: the first entry of the list taken, whatever its rank
get_error_code_error_message_based_on_priority_first(error_list) ==
    IF Len(error_list) = 0 THEN None ELSE Some(error_list[1])

\* utils::get_error_code_error_message_based_on_priority: the first entry of
\* the list stably sorted by the rank of its error type
get_error_code_error_message_based_on_priority(error_list) ==
    IF Len(error_list) = 0 THEN None
    ELSE LET rank(i) == ErrorTypeRank(get_connector_error_type(error_list[i].error_code,
                                                                error_list[i].error_message))
             first == CHOOSE i \in DOMAIN error_list :
                          \A j \in DOMAIN error_list :
                              rank(i) < rank(j) \/ (rank(i) = rank(j) /\ i <= j)
         IN  Some(error_list[first])

\* serde Deserialize of transformers::CheckoutErrorResponse
ParseCheckoutErrorResponse(body) ==
    IF body.kind # "json" \/ body.doc.t # "obj" THEN Err("ParsingError")
    ELSE LET request_id == ParseOptString(body.doc, "request_id")
             error_type == ParseOptString(body.doc, "error_type")
             error_codes == ParseOptStringVec(body.doc, "error_codes")
         IN  IF request_id.tag = "Err" \/ error_type.tag = "Err" \/ error_codes.tag = "Err"
             THEN Err("ParsingError")
             ELSE Ok([request_id |-> request_id.val,
                      error_codes |-> error_codes.val,
                      error_type |-> error_type.val])

\* What a handler leaves behind: its return value, the struct name it gave
\* parse_struct (None when it parsed nothing) and the typed body it logged on
\* the connector event (None when it logged nothing).
Handled(ret, type_name, logged) == [ret |-> ret, type_name |-> type_name, logged |-> logged]

\* a plausible slip: the sentinel pair swapped, the type in the codes list
EmptyBodyErrorResponse_swapped(status_code) ==
    [request_id |-> None,
     error_codes |-> IF status_code = 401 THEN Some(<<"invalid_api_key">>) ELSE None,
     error_type |-> IF status_code = 401 THEN Some("Invalid api key") ELSE None]

\* a plausible slip: the status test dropped, every empty body an invalid key
EmptyBodyErrorResponse_any_status(status_code) ==
    [request_id |-> None,
     error_codes |-> Some(<<"Invalid api key">>),
     error_type |-> Some("invalid_api_key")]

\* the CheckoutErrorResponse made up for an empty body
EmptyBodyErrorResponse(status_code) ==
    [request_id |-> None,
     error_codes |-> IF status_code = 401 THEN Some(<<"Invalid api key">>) ELSE None,
     error_type |-> IF status_code = 401 THEN Some("invalid_api_key") ELSE None]

\* a plausible slip: the two sides of .or() exchanged
ErrorReason_type_first(response) ==
    IF response.error_type.some THEN response.error_type
    ELSE IF response.error_codes.some THEN Some(join(response.error_codes.val, " & "))
    ELSE None

\* a plausible slip: an empty list of codes taken for an absent one
ErrorReason_empty_as_absent(response) ==
    IF response.error_codes.some /\ Len(response.error_codes.val) > 0
    THEN Some(join(response.error_codes.val, " & "))
    ELSE response.error_type

\* response.error_codes.map(|errors| errors.join(" & ")).or(response.error_type)
ErrorReason(response) ==
    IF response.error_codes.some THEN Some(join(response.error_codes.val, " & "))
    ELSE response.error_type

\* the ErrorResponse built from a CheckoutErrorResponse, and the event logged
ErrorResponseFrom(status_code, response, type_name) ==
    LET errors_list == IF response.error_codes.some THEN response.error_codes.val ELSE <<>>
        option_error_code_message ==
            get_error_code_error_message_based_on_priority(
                [i \in DOMAIN errors_list |-> ErrorCodeAndMessageFrom(errors_list[i])])
    IN  Handled(Ok([status_code |-> status_code,
                    code |-> IF option_error_code_message.some
                             THEN option_error_code_message.val.error_code
                             ELSE NO_ERROR_CODE,
                    message |-> IF option_error_code_message.some
                                THEN option_error_code_message.val.error_message
                                ELSE NO_ERROR_MESSAGE,
                    reason |-> ErrorReason(response),
                    attempt_status |-> None,
                    connector_transaction_id |-> response.request_id,
                    network_advice_code |-> None,
                    network_decline_code |-> None,
                    network_error_message |-> None]),
                type_name, Some(response))

\* a plausible slip: a body that does not parse is answered as an empty one
build_error_response_swallowing(r) ==
    LET parsed == ParseCheckoutErrorResponse(r.response)
    IN  IF r.response.kind = "empty" \/ parsed.tag = "Err"
        THEN ErrorResponseFrom(r.status_code, EmptyBodyErrorResponse(r.status_code), None)
        ELSE ErrorResponseFrom(r.status_code, parsed.val, Some("ErrorResponse"))

build_error_response(r) ==
    LET response == IF r.response.kind = "empty"
                    THEN Ok(EmptyBodyErrorResponse(r.status_code))
                    ELSE ParseCheckoutErrorResponse(r.response)
        type_name == IF r.response.kind = "empty" THEN None ELSE Some("ErrorResponse")
    IN  IF response.tag = "Err"
        THEN Handled(Err("ResponseDeserializationFailed"), type_name, None)
        ELSE ErrorResponseFrom(r.status_code, response.val, type_name)

(***************************************************************************)
(* Inputs of the error path.                                               *)
(***************************************************************************)
\* longest error_codes list of an error body
MaxCodes == 2

StatusCodes == {400, 401, 404, 422, 500}

\* error codes sent upstream: one of each class of the table, and one outside it
UpstreamCodes == {"card_number_invalid", "amount_exceeds_balance", "processing_error",
                  "payment_not_captured"}

SeqsUpTo(S, n) == UNION {[1..k -> S] : k \in 0..n}

ErrorCodesChoices ==
    {None, Some(JNull), Some(JStr("card_number_invalid")), Some(JArr(<<JNum(7)>>))}
        \cup {Some(JArr([i \in DOMAIN l |-> JStr(l[i])])) : l \in SeqsUpTo(UpstreamCodes, MaxCodes)}

ErrorTypeChoices == {None, Some(JNull), Some(JStr("request_invalid")), Some(JNum(422))}

RequestIdChoices == {None, Some(JStr("req_1"))}

ErrorDocs ==
    {JObjOf([request_id |-> rid, error_type |-> et, error_codes |-> ec]) :
        rid \in RequestIdChoices, et \in ErrorTypeChoices, ec \in ErrorCodesChoices}

ErrorBodies ==
    {EmptyBody, MalformedBody, JsonBody(JArr(<<>>)), JsonBody(JStr("Unauthorized"))}
        \cup {JsonBody(d) : d \in ErrorDocs}

Responses(bodies) == [status_code : StatusCodes, response : bodies]

SuccessStatusCodes == {200, 202}

SuccessResponses(bodies) == [status_code : SuccessStatusCodes, response : bodies]

(***************************************************************************)
(* RouterData and the sync flows.                                          *)
(***************************************************************************)
\* RouterData { request, connector_auth_type, response, .. } of a flow
RouterData(flow, req, auth) ==
    [flow |-> flow, request |-> req, connector_auth_type |-> auth, response |-> None]

\* a plausible slip: a router data built anew around the response, the
\* request payload not carried over
WithResponse_rebuilt(router_data, response) ==
    [RouterData(router_data.flow, None, router_data.connector_auth_type)
        EXCEPT !.response = Some(response)]

\* ..data.clone() with the response slot filled
WithResponse(router_data, response) == [router_data EXCEPT !.response = Some(response)]

\* serde Deserialize of transformers::ActionResponse
ParseActionResponse(doc) ==
    IF doc.t # "obj" THEN Err("ParsingError")
    ELSE LET action_id == ParseString(doc, "action_id")
             approved == IF ~HasKey(doc, "approved") \/ doc.fields["approved"].t = "null"
                         THEN Ok(None)
                         ELSE IF doc.fields["approved"].t = "bool"
                              THEN Ok(Some(doc.fields["approved"].bool))
                              ELSE Err("invalid type")
         IN  IF action_id.tag = "Err" \/ approved.tag = "Err" THEN Err("ParsingError")
             ELSE Ok([action_id |-> action_id.val, approved |-> approved.val])

\* serde Deserialize of Vec<transformers::ActionResponse>
ParseActionResponseList(body) ==
    IF body.kind # "json" \/ body.doc.t # "arr" THEN Err("ParsingError")
    ELSE IF \E i \in DOMAIN body.doc.items : ParseActionResponse(body.doc.items[i]).tag = "Err"
         THEN Err("ParsingError")
         ELSE Ok([i \in DOMAIN body.doc.items |-> ParseActionResponse(body.doc.items[i]).val])

\* serde Deserialize of transformers::PaymentsResponse
ParsePaymentsResponse(body) ==
    IF body.kind # "json" \/ body.doc.t # "obj" THEN Err("ParsingError")
    ELSE LET id == ParseString(body.doc, "id")
             status == ParseString(body.doc, "status")
         IN  IF id.tag = "Err" \/ status.tag = "Err" THEN Err("ParsingError")
             ELSE Ok([id |-> id.val, status |-> status.val])

\* the type read from the spec's words alone: the list-of-actions schema and
\* nothing else
ParsePaymentsResponseEnum_list_only(body) ==
    IF ParseActionResponseList(body).tag = "Err" THEN Err("ParsingError")
    ELSE Ok([variant |-> "ActionResponse", actions |-> ParseActionResponseList(body).val])

\* serde Deserialize of transformers::PaymentsResponseEnum, a type of its own
\* next to Vec<ActionResponse> and PaymentsResponse: an untagged enum whose
\* variants are tried in the order declared, ActionResponse(Vec<ActionResponse>)
\* and then PaymentResponse(Box<PaymentsResponse>)
ParsePaymentsResponseEnum(body) ==
    IF ParseActionResponseList(body).tag = "Ok"
    THEN Ok([variant |-> "ActionResponse", actions |-> ParseActionResponseList(body).val])
    ELSE IF ParsePaymentsResponse(body).tag = "Ok"
    THEN Ok([variant |-> "PaymentResponse", payment |-> ParsePaymentsResponse(body).val])
    ELSE Err("ParsingError")

\* impl From<&ActionResponse> for enums::RefundStatus
RefundStatusFrom(action) ==
    IF ~action.approved.some THEN "Pending"
    ELSE IF action.approved.val THEN "Success" ELSE "Failure"

\* TryFrom<RefundsResponseRouterData<RSync, &ActionResponse>>
RefundsRouterDataFrom(action, router_data) ==
    Ok(WithResponse(router_data,
                    Ok([connector_refund_id |-> action.action_id,
                        refund_status |-> RefundStatusFrom(action)])))

\* TryFrom<PaymentsSyncResponseRouterData<PaymentsResponse>>
PaymentsSyncRouterDataFrom(response, router_data) ==
    Ok(WithResponse(router_data,
                    Ok([kind |-> "TransactionResponse",
                        resource_id |-> response.id,
                        status |-> response.status])))

\* TryFrom<PaymentsSyncResponseRouterData<PaymentsResponseEnum>>: one capture
\* entry per action of the list, or the one entry of the single payment
CapturesRouterDataFrom(response, router_data) ==
    Ok(WithResponse(router_data,
                    Ok([kind |-> "MultipleCaptureResponse",
                        capture_sync_response_list |->
                            IF response.variant = "PaymentResponse"
                            THEN <<[payment_id |-> response.payment.id,
                                    status |-> response.payment.status]>>
                            ELSE [i \in DOMAIN response.actions |->
                                     [connector_capture_id |-> response.actions[i].action_id,
                                      approved |-> response.actions[i].approved]]])))

\* RefundsRequestData::get_connector_refund_id
get_connector_refund_id(req) ==
    IF req.connector_refund_id.some THEN Ok(req.connector_refund_id.val)
    ELSE Err("MissingConnectorRefundID")

\* a plausible slip: the first record of the list taken, whatever its id
find_action_first(response, refund_action_id) ==
    IF Len(response) = 0 THEN Err("ResponseHandlingFailed") ELSE Ok(response[1])

\* response.iter().find(|&x| x.action_id.clone() == refund_action_id)
\*     .ok_or(errors::ConnectorError::ResponseHandlingFailed)
find_action(response, refund_action_id) ==
    LET hits == {i \in DOMAIN response : response[i].action_id = refund_action_id}
    IN  IF hits = {} THEN Err("ResponseHandlingFailed")
        ELSE Ok(response[CHOOSE i \in hits : \A j \in hits : i <= j])

\* a plausible slip: the body parsed before the tracked id is read
rsync_handle_response_parse_first(router_data, r) ==
    LET refund_action_id == get_connector_refund_id(router_data.request)
        response == ParseActionResponseList(r.response)
        type_name == Some("checkout::CheckoutRefundResponse")
    IN  IF response.tag = "Err"
        THEN Handled(Err("ResponseDeserializationFailed"), type_name, None)
        ELSE IF refund_action_id.tag = "Err"
        THEN Handled(refund_action_id, type_name, Some(response.val))
        ELSE LET found == find_action(response.val, refund_action_id.val)
             IN  IF found.tag = "Err" THEN Handled(found, type_name, Some(response.val))
                 ELSE LET converted == RefundsRouterDataFrom(found.val, router_data)
                      IN  Handled(IF converted.tag = "Err" THEN Err("ResponseHandlingFailed")
                                  ELSE converted,
                                  type_name, Some(response.val))

\* ConnectorIntegration<RSync, ..>::handle_response
rsync_handle_response(router_data, r) ==
    LET refund_action_id == get_connector_refund_id(router_data.request)
        response == ParseActionResponseList(r.response)
        type_name == Some("checkout::CheckoutRefundResponse")
    IN  IF refund_action_id.tag = "Err" THEN Handled(refund_action_id, None, None)
        ELSE IF response.tag = "Err"
        THEN Handled(Err("ResponseDeserializationFailed"), type_name, None)
        ELSE LET found == find_action(response.val, refund_action_id.val)
             IN  IF found.tag = "Err" THEN Handled(found, type_name, Some(response.val))
                 ELSE LET converted == RefundsRouterDataFrom(found.val, router_data)
                      IN  Handled(IF converted.tag = "Err" THEN Err("ResponseHandlingFailed")
                                  ELSE converted,
                                  type_name, Some(response.val))

\* ResponseId::get_connector_transaction_id
get_connector_transaction_id(response_id) ==
    IF response_id.kind = "ConnectorTransactionId" THEN Ok(response_id.id)
    ELSE Err("MissingRequiredField")

\* ConnectorCommon::base_url
base_url(connectors) == connectors.checkout.base_url

\* a plausible slip: the two arms exchanged
psync_url_suffix_swapped(sync_type) ==
    IF sync_type.kind = "MultipleCaptureSync" THEN "" ELSE "/actions"

\* the match on req.request.sync_type in get_url
psync_url_suffix(sync_type) ==
    IF sync_type.kind = "MultipleCaptureSync" THEN "/actions" ELSE ""

\* ConnectorIntegration<PSync, ..>::get_url
psync_get_url(router_data, connectors) ==
    LET suffix == psync_url_suffix(router_data.request.sync_type)
        id == get_connector_transaction_id(router_data.request.connector_transaction_id)
    IN  IF id.tag = "Err" THEN Err("MissingConnectorTransactionID")
        ELSE Ok(base_url(connectors) \o "payments/" \o id.val \o suffix)

\* the match on data.request.sync_type in handle_response: the struct parsed
psync_response_type(sync_type) ==
    IF sync_type.kind = "MultipleCaptureSync" THEN "checkout::PaymentsResponseEnum"
    ELSE "PaymentsResponse"

\* ConnectorIntegration<PSync, ..>::handle_response
psync_handle_response(router_data, r) ==
    LET type_name == psync_response_type(router_data.request.sync_type)
        response == IF type_name = "checkout::PaymentsResponseEnum"
                    THEN ParsePaymentsResponseEnum(r.response)
                    ELSE ParsePaymentsResponse(r.response)
    IN  IF response.tag = "Err"
        THEN Handled(Err("ResponseDeserializationFailed"), Some(type_name), None)
        ELSE LET converted == IF type_name = "checkout::PaymentsResponseEnum"
                              THEN CapturesRouterDataFrom(response.val, router_data)
                              ELSE PaymentsSyncRouterDataFrom(response.val, router_data)
             IN  Handled(IF converted.tag = "Err" THEN Err("ResponseHandlingFailed")
                         ELSE converted,
                         Some(type_name), Some(response.val))

(***************************************************************************)
(* Inputs of the sync flows.                                               *)
(***************************************************************************)
\* longest list of action records in a sync response
MaxActions == 2

ActionIds == {"act_1", "act_2"}

ActionDocs ==
    {JObjOf([action_id |-> Some(JStr(a)), approved |-> approved]) :
        a \in ActionIds, approved \in {None, Some(JBool(TRUE)), Some(JBool(FALSE))}}

PaymentDocs ==
    {JObj([id |-> JStr(id), status |-> JStr(status)]) :
        id \in {"pay_1"}, status \in {"Authorized", "Captured"}}

SyncBodies ==
    {EmptyBody, MalformedBody, JsonBody(JArr(<<JObj([approved |-> JBool(TRUE)])>>)),
     JsonBody(JObj([request_id |-> JStr("req_1")]))}
        \cup {JsonBody(JArr(l)) : l \in SeqsUpTo(ActionDocs, MaxActions)}
        \cup {JsonBody(d) : d \in PaymentDocs}

Auths == {[kind |-> "SignatureKey", api_key |-> "pk_1", key1 |-> "pc_1", api_secret |-> "sk_1"]}

ConnectorsConfigs ==
    {[checkout |-> [base_url |-> b]] :
        b \in {"https://api.sandbox.checkout.com/", "https://api.checkout.com/"}}

RSyncRouterDatas ==
    {RouterData("RSync", [connector_transaction_id |-> "pay_1", connector_refund_id |-> id], a) :
        id \in {None, Some("act_1"), Some("act_2"), Some("act_3")}, a \in Auths}

ResponseIds ==
    {[kind |-> "ConnectorTransactionId", id |-> "pay_1"],
     [kind |-> "ConnectorTransactionId", id |-> "pay_2"],
     [kind |-> "NoResponseId"],
     [kind |-> "EncodedData", data |-> "enc_1"]}

SyncRequestTypes ==
    {[kind |-> "SinglePaymentSync"],
     [kind |-> "MultipleCaptureSync", pending_captures |-> <<"cap_1">>],
     [kind |-> "MultipleCaptureSync", pending_captures |-> <<>>]}

PSyncRouterDatas ==
    {RouterData("PSync", [connector_transaction_id |-> id, sync_type |-> st], a) :
        id \in ResponseIds, st \in SyncRequestTypes, a \in Auths}

(***************************************************************************)
(* ConnectorValidation.                                                    *)
(***************************************************************************)
\* ConnectorCommon::id
id == "checkout"

\* CaptureMethod::default()
DefaultCaptureMethod == "Automatic"

\* utils::construct_not_implemented_error_report
construct_not_implemented_error_report(capture_method, connector_name) ==
    [kind |-> "NotImplemented", capture_method |-> capture_method,
     connector |-> connector_name]

\* a plausible slip: Scheduled in the accepted arm, ManualMultiple refused
validate_connector_against_payment_request_slip(capture_method, payment_method, pmt) ==
    LET method == IF capture_method.some THEN capture_method.val ELSE DefaultCaptureMethod
    IN  IF method \in {"Automatic", "SequentialAutomatic", "Manual", "Scheduled"}
        THEN Ok("()")
        ELSE Err(construct_not_implemented_error_report(method, id))

\* ConnectorValidation::validate_connector_against_payment_request
validate_connector_against_payment_request(capture_method, payment_method, pmt) ==
    LET method == IF capture_method.some THEN capture_method.val ELSE DefaultCaptureMethod
    IN  IF method \in {"Automatic", "SequentialAutomatic", "Manual", "ManualMultiple"}
        THEN Ok("()")
        ELSE Err(construct_not_implemented_error_report(method, id))

CaptureMethods == {"Automatic", "SequentialAutomatic", "Manual", "ManualMultiple", "Scheduled"}

PaymentMethods == {"Card", "Wallet", "BankRedirect"}

PaymentMethodTypes == {"Credit", "Debit", "GooglePay", "ApplePay", "Ideal"}

(***************************************************************************)
(* FileUpload::validate_file_upload.                                       *)
(***************************************************************************)
FileValidationFailed(reason) == [kind |-> "FileValidationFailed", reason |-> reason]

\* a plausible slip: the type checked before the size
validate_file_upload_type_first(purpose, file_size, file_type) ==
    IF file_type \notin {"image/jpeg", "image/jpg", "image/png", "application/pdf"}
    THEN Err(FileValidationFailed("file_type does not match JPEG, JPG, PNG, or PDF format"))
    ELSE IF file_size > 4000000
    THEN Err(FileValidationFailed("file_size exceeded the max file size of 4MB"))
    ELSE Ok("()")

\* a plausible slip: >= where the code has >
validate_file_upload_off_by_one(purpose, file_size, file_type) ==
    IF file_size >= 4000000
    THEN Err(FileValidationFailed("file_size exceeded the max file size of 4MB"))
    ELSE IF file_type \notin {"image/jpeg", "image/jpg", "image/png", "application/pdf"}
    THEN Err(FileValidationFailed("file_type does not match JPEG, JPG, PNG, or PDF format"))
    ELSE Ok("()")

\* FileUpload::validate_file_upload, the arm of FilePurpose::DisputeEvidence (the
\* only purpose there is); file_type is the Mime as file_type.to_string()
\* renders it
validate_file_upload(purpose, file_size, file_type) ==
    LET supported_file_types == {"image/jpeg", "image/jpg", "image/png", "application/pdf"}
    IN  IF file_size > 4000000
        THEN Err(FileValidationFailed("file_size exceeded the max file size of 4MB"))
        ELSE IF file_type \notin supported_file_types
        THEN Err(FileValidationFailed("file_type does not match JPEG, JPG, PNG, or PDF format"))
        ELSE Ok("()")

FilePurposes == {"DisputeEvidence"}

\* file sizes tried on each side of the ceiling
SizeMargin == 2

FileSizes ==
    {-1, 0, 1, 4500000, 2147483647} \cup {4000000 + d : d \in (0 - SizeMargin)..SizeMargin}

FileTypes == {"image/jpeg", "image/jpg", "image/png", "application/pdf", "image/gif",
              "text/plain", "application/json", "application/pdf; charset=utf-8"}

(***************************************************************************)
(* Incoming webhooks.                                                      *)
(***************************************************************************)
\* transformers::is_chargeback_event
is_chargeback_event(transaction_type) ==
    transaction_type \in {"dispute_received", "dispute_expired", "dispute_accepted",
                          "dispute_canceled", "dispute_evidence_submitted",
                          "dispute_evidence_acknowledged_by_scheme",
                          "dispute_evidence_required", "dispute_arbitration_lost",
                          "dispute_arbitration_won", "dispute_won", "dispute_lost"}

\* transformers::is_refund_event
is_refund_event(transaction_type) ==
    transaction_type \in {"payment_refunded", "payment_refund_declined"}

\* serde Deserialize of transformers::CheckoutWebhookBody
ParseCheckoutWebhookBody(body) ==
    IF body.kind # "json" \/ body.doc.t # "obj" THEN Err("ParsingError")
    ELSE LET transaction_type == ParseString(body.doc, "type")
         IN  IF transaction_type.tag = "Err" \/ ~HasKey(body.doc, "data")
                \/ body.doc.fields["data"].t # "obj"
             THEN Err("ParsingError")
             ELSE LET obj == body.doc.fields["data"]
                      object_id == ParseString(obj, "id")
                      reference == ParseOptString(obj, "reference")
                      payment_id == ParseOptString(obj, "payment_id")
                      action_id == ParseOptString(obj, "action_id")
                  IN  IF object_id.tag = "Err" \/ reference.tag = "Err"
                         \/ payment_id.tag = "Err" \/ action_id.tag = "Err"
                      THEN Err("ParsingError")
                      ELSE Ok([transaction_type |-> transaction_type.val,
                               data |-> [id |-> object_id.val,
                                         reference |-> reference.val,
                                         payment_id |-> payment_id.val,
                                         action_id |-> action_id.val]])

PaymentId(kind, value) == [kind |-> "PaymentId", id |-> [kind |-> kind, value |-> value]]

RefundId(kind, value) == [kind |-> "RefundId", id |-> [kind |-> kind, value |-> value]]

\* a plausible slip: a chargeback without reference keyed by the object id
chargeback_reference_by_object_id(details) ==
    IF details.data.reference.some
    THEN Ok(PaymentId("PaymentAttemptId", details.data.reference.val))
    ELSE Ok(PaymentId("ConnectorTransactionId", details.data.id))

\* the chargeback arm of get_webhook_object_reference_id
chargeback_reference(details) ==
    IF details.data.reference.some
    THEN Ok(PaymentId("PaymentAttemptId", details.data.reference.val))
    ELSE IF details.data.payment_id.some
    THEN Ok(PaymentId("ConnectorTransactionId", details.data.payment_id.val))
    ELSE Err("WebhookReferenceIdNotFound")

\* a plausible slip: the refund arm copied from the payment arm, its ids
\* left as payment ids
refund_reference_as_payment(details) ==
    IF details.data.reference.some
    THEN Ok(PaymentId("PaymentAttemptId", details.data.reference.val))
    ELSE IF details.data.action_id.some
    THEN Ok(PaymentId("ConnectorTransactionId", details.data.action_id.val))
    ELSE Err("WebhookReferenceIdNotFound")

\* the refund arm of get_webhook_object_reference_id
refund_reference(details) ==
    IF details.data.reference.some
    THEN Ok(RefundId("RefundId", details.data.reference.val))
    ELSE IF details.data.action_id.some
    THEN Ok(RefundId("ConnectorRefundId", details.data.action_id.val))
    ELSE Err("WebhookReferenceIdNotFound")

\* the last arm of get_webhook_object_reference_id
payment_reference(details) ==
    IF details.data.reference.some
    THEN Ok(PaymentId("PaymentAttemptId", details.data.reference.val))
    ELSE Ok(PaymentId("ConnectorTransactionId", details.data.id))

\* a plausible slip: the parse failure reported as the other webhook
\* handlers report it
get_webhook_object_reference_id_decoding(body) ==
    LET details == ParseCheckoutWebhookBody(body)
    IN  IF details.tag = "Err" THEN Err("WebhookBodyDecodingFailed")
        ELSE IF is_chargeback_event(details.val.transaction_type)
        THEN chargeback_reference(details.val)
        ELSE IF is_refund_event(details.val.transaction_type)
        THEN refund_reference(details.val)
        ELSE payment_reference(details.val)

\* IncomingWebhook::get_webhook_object_reference_id
get_webhook_object_reference_id(body) ==
    LET details == ParseCheckoutWebhookBody(body)
    IN  IF details.tag = "Err" THEN Err("WebhookReferenceIdNotFound")
        ELSE IF is_chargeback_event(details.val.transaction_type)
        THEN chargeback_reference(details.val)
        ELSE IF is_refund_event(details.val.transaction_type)
        THEN refund_reference(details.val)
        ELSE payment_reference(details.val)

TransactionTypes == {"payment_approved", "payment_captured", "payment_refunded",
                     "payment_refund_declined", "dispute_received", "dispute_won",
                     "card_verified"}

WebhookDataDocs ==
    {JObjOf([id |-> Some(JStr("obj_1")), reference |-> reference,
             payment_id |-> payment_id, action_id |-> action_id]) :
        reference \in {None, Some(JNull), Some(JStr("ref_1"))},
        payment_id \in {None, Some(JStr("pay_123"))},
        action_id \in {None, Some(JStr("act_1"))}}

WebhookBodies ==
    {EmptyBody, MalformedBody, JsonBody(JObj([type |-> JStr("payment_approved")])),
     JsonBody(JObj([type |-> JStr("dispute_received"),
                    data |-> JObj([payment_id |-> JStr("pay_123")])]))}
        \cup {JsonBody(JObj([type |-> JStr(t), data |-> d])) :
                 t \in TransactionTypes, d \in WebhookDataDocs}

(***************************************************************************)
(* The dispute flows and the error path of every flow.                     *)
(***************************************************************************)
\* AcceptDisputeResponse / SubmitEvidenceResponse / DefendDisputeResponse
DisputeResponse(dispute_status) ==
    [dispute_status |-> dispute_status, connector_status |-> None]

\* a plausible slip: the body is read before the status is made up
accept_handle_response_parsing(router_data, r) ==
    IF r.response.kind # "json"
    THEN Handled(Err("ResponseDeserializationFailed"), Some("AcceptDisputeResponse"), None)
    ELSE Handled(Ok(WithResponse(router_data, Ok(DisputeResponse("DisputeAccepted")))),
                 None, None)

\* ConnectorIntegration<Accept, ..>::handle_response
accept_handle_response(router_data, r) ==
    Handled(Ok(WithResponse(router_data, Ok(DisputeResponse("DisputeAccepted")))), None, None)

\* ConnectorIntegration<Evidence, ..>::handle_response
evidence_handle_response(router_data, r) ==
    Handled(Ok(WithResponse(router_data, Ok(DisputeResponse("DisputeChallenged")))), None, None)

\* ConnectorIntegration<Defend, ..>::handle_response
defend_handle_response(router_data, r) ==
    Handled(Ok(WithResponse(router_data, Ok(DisputeResponse("DisputeChallenged")))), None, None)

\* the handle_response of a dispute flow
dispute_handle_response(flow, router_data, r) ==
    CASE flow = "Accept" -> accept_handle_response(router_data, r)
      [] flow = "Evidence" -> evidence_handle_response(router_data, r)
      [] flow = "Defend" -> defend_handle_response(router_data, r)

DisputeFlows == {"Accept", "Evidence", "Defend"}

\* the flows with a request and a response of their own
ImplementedFlows ==
    {"PaymentMethodToken", "Capture", "PSync", "Authorize", "Void", "Execute", "RSync"}
        \cup DisputeFlows \cup {"Upload"}

\* a plausible slip: the dispute flows, which read no body on success, read
\* none on failure either
get_error_response_synthesized(flow, r) ==
    IF flow \in DisputeFlows
    THEN ErrorResponseFrom(r.status_code, EmptyBodyErrorResponse(r.status_code), None)
    ELSE build_error_response(r)

\* ConnectorIntegration<F, ..>::get_error_response of every implemented flow
get_error_response(flow, r) == build_error_response(r)

DisputeRouterDatas ==
    {RouterData(flow, [connector_dispute_id |-> d], a) :
        flow \in DisputeFlows, d \in {"dsp_1", "dsp_2"}, a \in Auths}

\* what the processor may answer a dispute call with
DisputeBodies ==
    {EmptyBody, MalformedBody, JsonBody(JArr(<<>>)),
     JsonBody(JObj([status |-> JStr("expired")])),
     JsonBody(JObj([request_id |-> JStr("req_1"), error_type |-> JStr("request_invalid"),
                    error_codes |-> JArr(<<JStr("dispute_already_accepted")>>)]))}

(***************************************************************************)
(* Credentials and request headers.                                        *)
(***************************************************************************)
\* headers::CONTENT_TYPE
CONTENT_TYPE == "Content-Type"

\* headers::AUTHORIZATION
AUTHORIZATION == "Authorization"

\* TryFrom<&ConnectorAuthType> for transformers::CheckoutAuthType
CheckoutAuthType_try_from(auth_type) ==
    IF auth_type.kind = "SignatureKey"
    THEN Ok([api_secret |-> auth_type.api_secret,
             processing_channel_id |-> auth_type.key1,
             api_key |-> auth_type.api_key])
    ELSE Err("FailedToObtainAuthType")

\* a plausible slip: the public key sent where the secret belongs
get_auth_header_api_key(auth_type) ==
    LET auth == CheckoutAuthType_try_from(auth_type)
    IN  IF auth.tag = "Err" THEN Err("FailedToObtainAuthType")
        ELSE Ok(<< <<AUTHORIZATION, "Bearer " \o auth.val.api_key>> >>)

\* ConnectorCommon::get_auth_header
get_auth_header(auth_type) ==
    LET auth == CheckoutAuthType_try_from(auth_type)
    IN  IF auth.tag = "Err" THEN Err("FailedToObtainAuthType")
        ELSE Ok(<< <<AUTHORIZATION, "Bearer " \o auth.val.api_secret>> >>)

\* ConnectorCommon::common_get_content_type
common_get_content_type == "application/json"

\* ConnectorIntegration::get_content_type of a flow that does not override it
default_get_content_type == "application/json"

\* a plausible slip: the credential header built and never appended
build_headers_content_type_only(req) ==
    LET api_key == get_auth_header(req.connector_auth_type)
    IN  IF api_key.tag = "Err" THEN api_key
        ELSE Ok(<< <<CONTENT_TYPE, default_get_content_type>> >>)

\* ConnectorCommonExt::build_headers
build_headers(req) ==
    LET header == << <<CONTENT_TYPE, default_get_content_type>> >>
        api_key == get_auth_header(req.connector_auth_type)
    IN  IF api_key.tag = "Err" THEN api_key ELSE Ok(header \o api_key.val)

\* ConnectorIntegration<PaymentMethodToken, ..>::get_headers
tokenize_get_headers(req) ==
    LET header == << <<CONTENT_TYPE, common_get_content_type>> >>
        api_key == CheckoutAuthType_try_from(req.connector_auth_type)
    IN  IF api_key.tag = "Err" THEN Err("FailedToObtainAuthType")
        ELSE Ok(header \o << <<AUTHORIZATION, "Bearer " \o api_key.val.api_key>> >>)

\* ConnectorIntegration<Accept | Evidence | Defend, ..>::get_headers
dispute_get_headers(req) ==
    LET header == << <<CONTENT_TYPE, default_get_content_type>> >>
        api_key == get_auth_header(req.connector_auth_type)
    IN  IF api_key.tag = "Err" THEN api_key ELSE Ok(header \o api_key.val)

\* ConnectorIntegration<Upload, ..>::get_headers
upload_get_headers(req) == get_auth_header(req.connector_auth_type)

\* ConnectorIntegration<F, ..>::get_headers of an implemented flow
get_headers(flow, req) ==
    CASE flow = "PaymentMethodToken" -> tokenize_get_headers(req)
      [] flow \in {"Capture", "PSync", "Authorize", "Void", "Execute", "RSync"} ->
             build_headers(req)
      [] flow \in DisputeFlows -> dispute_get_headers(req)
      [] flow = "Upload" -> upload_get_headers(req)

\* ConnectorAuthType: the shape the adapter takes, with two keys and two
\* secrets, and the other shapes
AuthTypes ==
    [kind : {"SignatureKey"}, api_key : {"pk_1", "pk_2"}, key1 : {"pc_1"},
     api_secret : {"sk_1", "sk_2"}]
        \cup {[kind |-> "TemporaryAuth"], [kind |-> "NoKey"],
              [kind |-> "HeaderKey", api_key |-> "sk_1"],
              [kind |-> "BodyKey", api_key |-> "sk_1", key1 |-> "pc_1"],
              [kind |-> "MultiAuthKey", api_key |-> "pk_1", key1 |-> "pc_1",
               api_secret |-> "sk_1", key2 |-> "k_2"]}

(***************************************************************************)
(* Webhook source verification.                                            *)
(***************************************************************************)
\* the value of a hex digit, upper or lower case, None for any other character
HexDigitValue(c) ==
    LET lower == "0123456789abcdef"
        upper == "0123456789ABCDEF"
        hit == {i \in 1..16 : SubSeq(lower, i, i) = c \/ SubSeq(upper, i, i) = c}
    IN  IF hit = {} THEN None ELSE Some((CHOOSE i \in hit : TRUE) - 1)

\* hex::decode: an odd length is refused, then any character that is no digit
hex_decode(text) ==
    LET digit(i) == HexDigitValue(SubSeq(text, i, i))
    IN  IF Len(text) % 2 # 0 THEN Err("OddLength")
        ELSE IF \E i \in 1..Len(text) : ~digit(i).some THEN Err("InvalidHexCharacter")
        ELSE Ok([i \in 1..(Len(text) \div 2) |->
                    16 * digit(2 * i - 1).val + digit(2 * i).val])

\* utils::get_header_key_value: the value of the first header of that name
get_header_key_value(key, headers) ==
    LET hit == {i \in DOMAIN headers : headers[i][1] = key}
    IN  IF hit = {} THEN Err("WebhookSourceVerificationFailed")
        ELSE Ok(headers[CHOOSE i \in hit : \A j \in hit : i <= j][2])

\* a plausible slip: a request without the header verified against no signature
get_webhook_source_verification_signature_unsigned(webhook_request, connector_webhook_secrets) ==
    LET signature == get_header_key_value("cko-signature", webhook_request.headers)
    IN  IF signature.tag = "Err" THEN Ok(<<>>)
        ELSE IF hex_decode(signature.val).tag = "Err" THEN Err("WebhookSignatureNotFound")
        ELSE hex_decode(signature.val)

\* IncomingWebhook::get_webhook_source_verification_signature
get_webhook_source_verification_signature(webhook_request, connector_webhook_secrets) ==
    LET signature == get_header_key_value("cko-signature", webhook_request.headers)
    IN  IF signature.tag = "Err" THEN Err("WebhookSignatureNotFound")
        ELSE IF hex_decode(signature.val).tag = "Err" THEN Err("WebhookSignatureNotFound")
        ELSE hex_decode(signature.val)

\* what a signature header may hold: digests in either case, the empty text,
\* an odd length, characters that are no digits
SignatureTexts == {"deadbeef", "DEADBEEF", "0a1B", "", "abc", "zz", "0x1f", "de ad"}

\* request.headers (names in lower case, as the header map keeps them)
WebhookHeaders ==
    {<< >>, << <<"content-type", "application/json">> >>,
     << <<"authorization", "deadbeef">> >>}
        \cup {<< <<"cko-signature", v>> >> : v \in SignatureTexts}
        \cup {<< <<"content-type", "application/json">>, <<"cko-signature", v>> >> :
                 v \in SignatureTexts}

\* ConnectorWebhookSecrets
WebhookSecrets ==
    {[secret |-> "whsec_1", additional_secret |-> None],
     [secret |-> "deadbeef", additional_secret |-> Some("0a1B")]}

(***************************************************************************)
(* The resource object of a webhook.                                       *)
(***************************************************************************)
\* serde Deserialize of transformers::CheckoutWebhookEventTypeBody
ParseCheckoutWebhookEventTypeBody(body) ==
    IF body.kind # "json" \/ body.doc.t # "obj" THEN Err("ParsingError")
    ELSE LET transaction_type == ParseString(body.doc, "type")
         IN  IF transaction_type.tag = "Err" THEN Err("ParsingError")
             ELSE Ok([transaction_type |-> transaction_type.val])

\* serde Deserialize of transformers::CheckoutDisputeWebhookBody
ParseCheckoutDisputeWebhookBody(body) ==
    IF body.kind # "json" \/ body.doc.t # "obj" THEN Err("ParsingError")
    ELSE LET transaction_type == ParseString(body.doc, "type")
         IN  IF transaction_type.tag = "Err" \/ ~HasKey(body.doc, "data")
                \/ body.doc.fields["data"].t # "obj"
             THEN Err("ParsingError")
             ELSE LET obj == body.doc.fields["data"]
                      object_id == ParseString(obj, "id")
                      payment_id == ParseOptString(obj, "payment_id")
                      currency == ParseString(obj, "currency")
                  IN  IF object_id.tag = "Err" \/ payment_id.tag = "Err"
                         \/ currency.tag = "Err" \/ ~HasKey(obj, "amount")
                         \/ obj.fields["amount"].t # "num"
                      THEN Err("ParsingError")
                      ELSE Ok([transaction_type |-> transaction_type.val,
                               data |-> [id |-> object_id.val,
                                         payment_id |-> payment_id.val,
                                         amount |-> obj.fields["amount"].num,
                                         currency |-> currency.val]])

\* the three payloads get_webhook_resource_object boxes
DisputePayload(details) == [kind |-> "CheckoutDisputeWebhookData", dispute |-> details]

RefundPayload(action_id, reference) ==
    [kind |-> "RefundResponse", action_id |-> action_id, reference |-> reference]

PaymentPayload(payment_id, reference) ==
    [kind |-> "PaymentsResponse", id |-> payment_id, reference |-> reference]

\* TryFrom<&IncomingWebhookRequestDetails> for transformers::RefundResponse
RefundResponse_try_from(body) ==
    LET details == ParseCheckoutWebhookBody(body)
    IN  IF details.tag = "Err" \/ ~details.val.data.action_id.some
        THEN Err("WebhookBodyDecodingFailed")
        ELSE Ok(RefundPayload(details.val.data.action_id.val,
                              IF details.val.data.reference.some
                              THEN details.val.data.reference.val ELSE ""))

\* TryFrom<&IncomingWebhookRequestDetails> for transformers::PaymentsResponse
PaymentsResponse_try_from(body) ==
    LET details == ParseCheckoutWebhookBody(body)
    IN  IF details.tag = "Err" THEN Err("WebhookBodyDecodingFailed")
        ELSE Ok(PaymentPayload(IF details.val.data.payment_id.some
                               THEN details.val.data.payment_id.val
                               ELSE details.val.data.id,
                               details.val.data.reference))

\* a plausible slip: the refund arm left out, a refund answered as a payment
get_webhook_resource_object_two_arms(body) ==
    LET event_type_data == ParseCheckoutWebhookEventTypeBody(body)
    IN  IF event_type_data.tag = "Err" THEN Err("WebhookBodyDecodingFailed")
        ELSE IF is_chargeback_event(event_type_data.val.transaction_type)
        THEN LET dispute_webhook_body == ParseCheckoutDisputeWebhookBody(body)
             IN  IF dispute_webhook_body.tag = "Err" THEN Err("WebhookBodyDecodingFailed")
                 ELSE Ok(DisputePayload(dispute_webhook_body.val.data))
        ELSE PaymentsResponse_try_from(body)

\* IncomingWebhook::get_webhook_resource_object
get_webhook_resource_object(body) ==
    LET event_type_data == ParseCheckoutWebhookEventTypeBody(body)
    IN  IF event_type_data.tag = "Err" THEN Err("WebhookBodyDecodingFailed")
        ELSE IF is_chargeback_event(event_type_data.val.transaction_type)
        THEN LET dispute_webhook_body == ParseCheckoutDisputeWebhookBody(body)
             IN  IF dispute_webhook_body.tag = "Err" THEN Err("WebhookBodyDecodingFailed")
                 ELSE Ok(DisputePayload(dispute_webhook_body.val.data))
        ELSE IF is_refund_event(event_type_data.val.transaction_type)
        THEN RefundResponse_try_from(body)
        ELSE PaymentsResponse_try_from(body)

\* webhook data that carries what a dispute carries
DisputeDataDocs ==
    {JObjOf([id |-> Some(JStr("dsp_1")), payment_id |-> payment_id, action_id |-> action_id,
             reference |-> reference, amount |-> amount, currency |-> Some(JStr("USD"))]) :
        payment_id \in {None, Some(JStr("pay_123"))},
        action_id \in {None, Some(JStr("act_1"))},
        reference \in {None, Some(JStr("ref_1"))},
        amount \in {Some(JNum(1050)), Some(JStr("10.50"))}}

\* request.body of a webhook whose resource object is asked for
ResourceBodies ==
    WebhookBodies
        \cup {JsonBody(JObj([type |-> JStr(t), data |-> d])) :
                 t \in TransactionTypes, d \in DisputeDataDocs}

(***************************************************************************)
(* The flows the adapter declines.                                         *)
(***************************************************************************)
\* ConnectorError::NotImplemented(message)
NotImplemented(message) == [kind |-> "NotImplemented", message |-> message]

\* the flows whose impl block is empty, and SetupMandate
UnsupportedFlows == {"Session", "AccessTokenAuth", "SetupMandate", "Retrieve"}

\* the default read from the spec's words alone: a failure naming the flow
default_build_request_not_implemented(flow, req, connectors) == Err(NotImplemented(flow))

\* ConnectorIntegration::build_request as the trait declares it, for a flow
\* that overrides nothing: the call is counted as an unimplemented flow and
\* no request is built
default_build_request(flow, req, connectors) == Ok(None)

\* ConnectorIntegration<SetupMandate, ..>::build_request
setup_mandate_build_request(req, connectors) ==
    Err(NotImplemented("Setup Mandate flow for Checkout"))

\* build_request of a flow the adapter declines
unsupported_build_request(flow, req, connectors) ==
    IF flow = "SetupMandate" THEN setup_mandate_build_request(req, connectors)
    ELSE default_build_request(flow, req, connectors)

(***************************************************************************)
(* The adapter instance.                                                   *)
(***************************************************************************)
\* a plausible slip: the adapter built with a major-unit strategy
Checkout_new_major_unit == [amount_converter |-> "StringMajorUnitForConnector"]

\* Checkout::new
Checkout_new == [amount_converter |-> "MinorUnitForConnector"]

\* how many threads run handlers of the one instance side by side
MaxThreads == 2

Threads == 1..MaxThreads

\* a thread that is in no handler
NoCall == [at |-> "idle"]

(***************************************************************************)
(* ConnectorSpecifications: the static tables.                             *)
(***************************************************************************)
\* a plausible slip: Scheduled listed as supported
supported_capture_methods_scheduled ==
    <<"Automatic", "Manual", "SequentialAutomatic", "ManualMultiple", "Scheduled">>

\* the capture methods every entry of the table is given
supported_capture_methods ==
    <<"Automatic", "Manual", "SequentialAutomatic", "ManualMultiple">>

supported_card_network ==
    <<"AmericanExpress", "CartesBancaires", "DinersClub", "Discover", "JCB", "Mastercard",
      "Visa", "UnionPay">>

\* one checkout_supported_payment_methods.add(..)
PaymentMethodEntry(payment_method, payment_method_type, specific_features) ==
    [payment_method |-> payment_method,
     payment_method_type |-> payment_method_type,
     details |-> [mandates |-> "NotSupported",
                  refunds |-> "Supported",
                  supported_capture_methods |-> supported_capture_methods,
                  specific_features |-> specific_features]]

CardSpecificFeatures ==
    Some([three_ds |-> "Supported", no_three_ds |-> "Supported",
          supported_card_networks |-> supported_card_network])

\* static CHECKOUT_SUPPORTED_PAYMENT_METHODS, its entries in the order added
CHECKOUT_SUPPORTED_PAYMENT_METHODS ==
    <<PaymentMethodEntry("Card", "Credit", CardSpecificFeatures),
      PaymentMethodEntry("Card", "Debit", CardSpecificFeatures),
      PaymentMethodEntry("Wallet", "GooglePay", None),
      PaymentMethodEntry("Wallet", "ApplePay", None)>>

\* static CHECKOUT_CONNECTOR_INFO
CHECKOUT_CONNECTOR_INFO ==
    [display_name |-> "Checkout",
     description |-> "Checkout.com is a British multinational financial technology company that processes payments for other companies.",
     connector_type |-> "PaymentGateway"]

\* static CHECKOUT_SUPPORTED_WEBHOOK_FLOWS
CHECKOUT_SUPPORTED_WEBHOOK_FLOWS == <<"Payments", "Refunds", "Disputes">>

\* LazyLock::new: nothing is built before the first access
LazyLock_new == None

\* LazyLock::force (Deref): the first access builds the value, once
LazyLock_force(lazy) ==
    IF lazy.some THEN lazy ELSE Some(CHECKOUT_SUPPORTED_PAYMENT_METHODS)

\* ConnectorSpecifications::get_connector_about / get_supported_payment_methods /
\* get_supported_webhook_flows, lazy being the table once forced
get_specification(name, lazy) ==
    CASE name = "get_connector_about" -> Some(CHECKOUT_CONNECTOR_INFO)
      [] name = "get_supported_payment_methods" -> Some(lazy.val)
      [] name = "get_supported_webhook_flows" -> Some(CHECKOUT_SUPPORTED_WEBHOOK_FLOWS)

\* the tables a getter leaves behind
tables_after(name, lazy) ==
    IF name = "get_supported_payment_methods" THEN LazyLock_force(lazy) ELSE lazy

Specifications ==
    {"get_connector_about", "get_supported_payment_methods", "get_supported_webhook_flows"}

(***************************************************************************)
(* Building the outbound request.                                          *)
(***************************************************************************)
\* ConnectorCommon::get_currency_unit
get_currency_unit == "Minor"

\* the newtype of an integer number of minor units
MinorUnit(n) == [unit |-> "Minor", value |-> n]

\* Currency::number_of_digits_after_decimal_point
CurrencyExponent(currency) ==
    CASE currency = "JPY" -> 0
      [] currency = "USD" -> 2
      [] currency = "KWD" -> 3

RECURSIVE Pow10(_)
Pow10(e) == IF e = 0 THEN 1 ELSE 10 * Pow10(e - 1)

\* utils::convert_amount: AmountConvertor::convert of the strategy, a failure
\* reported as AmountConversionFailed; a major-unit strategy splits the amount
\* at the currency's decimal point
convert_amount(amount_converter, amount, currency) ==
    CASE amount_converter = "MinorUnitForConnector" -> Ok(amount)
      [] amount_converter = "StringMajorUnitForConnector" ->
             Ok([unit |-> "Major",
                 whole |-> amount.value \div Pow10(CurrencyExponent(currency)),
                 fraction |-> amount.value % Pow10(CurrencyExponent(currency))])
      [] OTHER -> Err("AmountConversionFailed")

\* a plausible slip: the refund sync path written like its neighbours
rsync_url_path_single_slash(connector_transaction_id) ==
    "payments/" \o connector_transaction_id \o "/actions"

\* the format string of ConnectorIntegration<RSync, ..>::get_url
rsync_url_path(connector_transaction_id) ==
    "/payments/" \o connector_transaction_id \o "/actions"

\* ConnectorIntegration<F, ..>::get_url of an implemented flow
get_url(flow, req, connectors) ==
    CASE flow = "PaymentMethodToken" -> Ok(base_url(connectors) \o "tokens")
      [] flow = "Capture" ->
             Ok(base_url(connectors) \o "payments/"
                    \o req.request.connector_transaction_id \o "/captures")
      [] flow = "PSync" -> psync_get_url(req, connectors)
      [] flow = "Authorize" -> Ok(base_url(connectors) \o "payments")
      [] flow = "Void" ->
             Ok(base_url(connectors) \o "payments/"
                    \o req.request.connector_transaction_id \o "/voids")
      [] flow = "Execute" ->
             Ok(base_url(connectors) \o "payments/"
                    \o req.request.connector_transaction_id \o "/refunds")
      [] flow = "RSync" ->
             Ok(base_url(connectors)
                    \o rsync_url_path(req.request.connector_transaction_id))
      [] flow = "Accept" ->
             Ok(base_url(connectors) \o "disputes/"
                    \o req.request.connector_dispute_id \o "/accept")
      [] flow \in {"Evidence", "Defend"} ->
             Ok(base_url(connectors) \o "disputes/"
                    \o req.request.connector_dispute_id \o "/evidence")
      [] flow = "Upload" -> Ok(base_url(connectors) \o "files")

\* the flows whose build_request calls set_body
FlowsWithBody ==
    {"PaymentMethodToken", "Capture", "Authorize", "Void", "Execute", "Upload", "Evidence"}

\* the amount field a flow converts
request_amount(flow, req) ==
    CASE flow = "Authorize" -> req.request.minor_amount
      [] flow = "Capture" -> req.request.minor_amount_to_capture
      [] flow = "Execute" -> req.request.minor_refund_amount

\* the connector request of a flow: TokenRequest / PaymentsRequest /
\* PaymentCaptureRequest / PaymentVoidRequest / RefundRequest / Evidence
\* ::try_from and construct_file_upload_request
connector_request_try_from(flow, req, amount) ==
    IF flow \in {"PaymentMethodToken", "Authorize"} /\ req.request.payment_method_data # "Card"
    THEN Err("NotImplemented")
    ELSE CASE flow = "PaymentMethodToken" ->
                  Ok([type |-> "card", token_data |-> req.request.payment_method_data])
           [] flow \in {"Authorize", "Capture"} ->
                  LET auth == CheckoutAuthType_try_from(req.connector_auth_type)
                  IN  IF auth.tag = "Err" THEN Err("FailedToObtainAuthType")
                      ELSE Ok([amount |-> amount, currency |-> req.request.currency,
                               processing_channel_id |-> auth.val.processing_channel_id])
           [] flow = "Void" -> Ok([reference |-> req.request.connector_transaction_id])
           [] flow = "Execute" ->
                  Ok([amount |-> Some(amount), reference |-> req.request.refund_id])
           [] flow = "Evidence" ->
                  Ok([additional_evidence_text |-> req.request.uncategorized_text])
           [] flow = "Upload" ->
                  Ok([purpose |-> "dispute_evidence", file |-> req.request.file_key])

\* ConnectorIntegration<F, ..>::get_request_body of a flow that sends a payload
get_request_body(self, flow, req) ==
    LET amount == IF flow \in {"Authorize", "Capture", "Execute"}
                  THEN convert_amount(self.amount_converter, request_amount(flow, req),
                                      req.request.currency)
                  ELSE Ok(None)
        connector_req == connector_request_try_from(flow, req, amount.val)
    IN  IF amount.tag = "Err" THEN amount
        ELSE IF connector_req.tag = "Err" THEN connector_req
        ELSE Ok([content |-> IF flow = "Upload" THEN "FormData" ELSE "Json",
                 value |-> connector_req.val])

\* the Method handed to RequestBuilder::method
http_method(flow) ==
    CASE flow \in {"PSync", "RSync"} -> "Get"
      [] flow = "Evidence" -> "Put"
      [] OTHER -> "Post"

\* a plausible slip: a failure of get_headers answered with no headers
build_request_lenient(self, flow, req, connectors) ==
    LET url == get_url(flow, req, connectors)
        headers == get_headers(flow, req)
        body == IF flow \in FlowsWithBody THEN get_request_body(self, flow, req)
                ELSE Ok(None)
    IN  IF url.tag = "Err" THEN url
        ELSE IF body.tag = "Err" THEN body
        ELSE Ok(Some([method |-> http_method(flow), url |-> url.val,
                      default_headers |-> TRUE,
                      headers |-> IF headers.tag = "Err" THEN <<>> ELSE headers.val,
                      body |-> IF flow \in FlowsWithBody THEN Some(body.val) ELSE None]))

\* ConnectorIntegration<F, ..>::build_request of an implemented flow: the
\* builder takes the URL, the default headers, the headers and the body in
\* that order, the first failure ending the call
build_request(self, flow, req, connectors) ==
    LET url == get_url(flow, req, connectors)
        headers == get_headers(flow, req)
        body == IF flow \in FlowsWithBody THEN get_request_body(self, flow, req)
                ELSE Ok(None)
    IN  IF url.tag = "Err" THEN url
        ELSE IF headers.tag = "Err" THEN headers
        ELSE IF body.tag = "Err" THEN body
        ELSE Ok(Some([method |-> http_method(flow), url |-> url.val,
                      default_headers |-> TRUE, headers |-> headers.val,
                      body |-> IF flow \in FlowsWithBody THEN Some(body.val) ELSE None]))

\* the amounts and currencies of the requests
Amounts == {MinorUnit(1), MinorUnit(1050)}

Currencies == {"USD", "JPY", "KWD"}

TransactionIds == {"pay_1", "pay_2"}

\* the request half of the router data of a flow
FlowRequestDatas(flow) ==
    CASE flow = "PaymentMethodToken" -> [payment_method_data : {"Card", "BankRedirect"}]
      [] flow = "Authorize" ->
             [minor_amount : Amounts, currency : Currencies,
              payment_method_data : {"Card", "BankRedirect"}]
      [] flow = "Capture" ->
             [connector_transaction_id : TransactionIds,
              minor_amount_to_capture : Amounts, currency : Currencies]
      [] flow = "PSync" ->
             [connector_transaction_id : ResponseIds, sync_type : SyncRequestTypes]
      [] flow = "Void" ->
             [connector_transaction_id : TransactionIds,
              cancellation_reason : {None, Some("requested_by_customer")}]
      [] flow = "Execute" ->
             [connector_transaction_id : TransactionIds, minor_refund_amount : Amounts,
              currency : Currencies, refund_id : {"ref_1"}]
      [] flow = "RSync" ->
             [connector_transaction_id : TransactionIds,
              connector_refund_id : {None, Some("act_1")}]
      [] flow \in {"Accept", "Defend"} -> [connector_dispute_id : {"dsp_1", "dsp_2"}]
      [] flow = "Evidence" ->
             [connector_dispute_id : {"dsp_1", "dsp_2"},
              uncategorized_text : {None, Some("proof of delivery")}]
      [] flow = "Upload" -> [file_key : {"file_1", "file_2"}]

\* the credentials the requests are built with
RequestAuthTypes ==
    {a \in AuthTypes : a.kind # "SignatureKey" \/ a.api_secret = "sk_1"}
        \ {[kind |-> "NoKey"], [kind |-> "MultiAuthKey", api_key |-> "pk_1",
                                 key1 |-> "pc_1", api_secret |-> "sk_1", key2 |-> "k_2"]}

(***************************************************************************)
(* File upload: the response.                                              *)
(***************************************************************************)
\* serde Deserialize of transformers::FileUploadResponse
ParseFileUploadResponse(body) ==
    IF body.kind # "json" \/ body.doc.t # "obj" THEN Err("ParsingError")
    ELSE LET file_id == ParseString(body.doc, "id")
         IN  IF file_id.tag = "Err" THEN Err("ParsingError")
             ELSE Ok([file_id |-> file_id.val])

\* ConnectorIntegration<Upload, ..>::handle_response
upload_handle_response(router_data, r) ==
    LET response == ParseFileUploadResponse(r.response)
    IN  IF response.tag = "Err"
        THEN Handled(Err("ResponseDeserializationFailed"),
                     Some("Checkout FileUploadResponse"), None)
        ELSE Handled(Ok(WithResponse(router_data,
                                     Ok([provider_file_id |-> response.val.file_id]))),
                     Some("Checkout FileUploadResponse"), Some(response.val))

\* the handle_response of the flows that fill the response slot from a clone
slot_handle_response(flow, router_data, r) ==
    IF flow = "Upload" THEN upload_handle_response(router_data, r)
    ELSE dispute_handle_response(flow, router_data, r)

\* router datas of the dispute and upload flows, with a payload and two
\* credentials
SlotRouterDatas ==
    {RouterData(flow, req, a) :
        flow \in DisputeFlows \cup {"Upload"},
        req \in [connector_dispute_id : {"dsp_1", "dsp_2"}, file_key : {"file_1", "file_2"}],
        a \in {x \in AuthTypes : x.kind = "SignatureKey" /\ x.api_key = "pk_1"}}

\* what the processor may answer an upload with
UploadBodies ==
    {EmptyBody, MalformedBody,
     JsonBody(JObj([id |-> JStr("file_9")])),
     JsonBody(JObj([id |-> JStr("file_8"), filename |-> JStr("proof.pdf")])),
     JsonBody(JObj([request_id |-> JStr("req_1")]))}

(***************************************************************************)
(* The handlers as steps.                                                  *)
(***************************************************************************)
NoRequest == None

Init ==
    /\ op = "idle"
    /\ data = None
    /\ request = NoRequest
    /\ res = None
    /\ result = None
    /\ event = [type_name |-> None, logged |-> None]
    /\ adapter = Checkout_new
    /\ tables = LazyLock_new
    /\ calls = [t \in Threads |-> NoCall]

Returns(h) ==
    /\ result' = Some(h.ret)
    /\ event' = [type_name |-> h.type_name, logged |-> h.logged]

BuildErrorResponse ==
    /\ op = "idle"
    /\ \E r \in Responses(ErrorBodies) :
        /\ op' = "build_error_response"
        /\ data' = None
        /\ request' = NoRequest
        /\ res' = Some(r)
        /\ Returns(build_error_response(r))
    /\ UNCHANGED <<adapter, tables, calls>>

RSyncHandleResponse ==
    /\ op = "idle"
    /\ \E d \in RSyncRouterDatas, r \in SuccessResponses(SyncBodies) :
        /\ op' = "RSync.handle_response"
        /\ data' = Some(d)
        /\ request' = NoRequest
        /\ res' = Some(r)
        /\ Returns(rsync_handle_response(d, r))
    /\ UNCHANGED <<adapter, tables, calls>>

PSyncGetUrl ==
    /\ op = "idle"
    /\ \E d \in PSyncRouterDatas, c \in ConnectorsConfigs :
        /\ op' = "PSync.get_url"
        /\ data' = Some(d)
        /\ request' = Some(psync_get_url(d, c))
        /\ UNCHANGED <<res, result, event>>
    /\ UNCHANGED <<adapter, tables, calls>>

\* the transport hands back the response of the request that was built
PSyncHandleResponse ==
    /\ op = "PSync.get_url"
    /\ request.val.tag = "Ok"
    /\ \E r \in SuccessResponses(SyncBodies) :
        /\ op' = "PSync.handle_response"
        /\ res' = Some(r)
        /\ Returns(psync_handle_response(data.val, r))
        /\ UNCHANGED <<data, request>>
    /\ UNCHANGED <<adapter, tables, calls>>

\* a handler that takes no RouterData and no raw response
Called(name, arguments, ret) ==
    /\ op' = name
    /\ data' = Some(arguments)
    /\ request' = NoRequest
    /\ res' = None
    /\ result' = Some(ret)
    /\ event' = [type_name |-> None, logged |-> None]

ValidateConnectorAgainstPaymentRequest ==
    /\ op = "idle"
    /\ \E cm \in {None} \cup {Some(m) : m \in CaptureMethods},
          pm \in PaymentMethods,
          pmt \in {None} \cup {Some(t) : t \in PaymentMethodTypes} :
        Called("validate_connector_against_payment_request",
               [capture_method |-> cm, payment_method |-> pm, pmt |-> pmt],
               validate_connector_against_payment_request(cm, pm, pmt))
    /\ UNCHANGED <<adapter, tables, calls>>

ErrorCodeInputs ==
    ArmCodes \cup {"", "Invalid api key", "payment_not_captured", "CARD_EXPIRED", "card_expired "}

ErrorMessageInputs == {"", "card_expired", "The card has expired"}

GetConnectorErrorType ==
    /\ op = "idle"
    /\ \E code \in ErrorCodeInputs, message \in ErrorMessageInputs :
        Called("get_connector_error_type",
               [error_code |-> code, error_message |-> message],
               get_connector_error_type(code, message))
    /\ UNCHANGED <<adapter, tables, calls>>

ValidateFileUpload ==
    /\ op = "idle"
    /\ \E purpose \in FilePurposes, size \in FileSizes, type \in FileTypes :
        Called("validate_file_upload",
               [purpose |-> purpose, file_size |-> size, file_type |-> type],
               validate_file_upload(purpose, size, type))
    /\ UNCHANGED <<adapter, tables, calls>>

GetWebhookObjectReferenceId ==
    /\ op = "idle"
    /\ \E body \in WebhookBodies :
        Called("get_webhook_object_reference_id", [body |-> body],
               get_webhook_object_reference_id(body))
    /\ UNCHANGED <<adapter, tables, calls>>

DisputeHandleResponse ==
    /\ op = "idle"
    /\ \E d \in DisputeRouterDatas,
          r \in [status_code : SuccessStatusCodes \cup StatusCodes, response : DisputeBodies] :
        /\ op' = "Dispute.handle_response"
        /\ data' = Some(d)
        /\ request' = NoRequest
        /\ res' = Some(r)
        /\ Returns(dispute_handle_response(d.flow, d, r))
    /\ UNCHANGED <<adapter, tables, calls>>

GetErrorResponse ==
    /\ op = "idle"
    /\ \E flow \in ImplementedFlows, r \in Responses(ErrorBodies) :
        /\ op' = "get_error_response"
        /\ data' = Some([flow |-> flow])
        /\ request' = NoRequest
        /\ res' = Some(r)
        /\ Returns(get_error_response(flow, r))
    /\ UNCHANGED <<adapter, tables, calls>>

GetAuthHeader ==
    /\ op = "idle"
    /\ \E a \in AuthTypes :
        Called("get_auth_header", [auth_type |-> a], get_auth_header(a))
    /\ UNCHANGED <<adapter, tables, calls>>

\* get_headers reads the credential of the router data and nothing else of it
GetHeaders ==
    /\ op = "idle"
    /\ \E flow \in ImplementedFlows, a \in AuthTypes :
        Called("get_headers", RouterData(flow, None, a),
               get_headers(flow, RouterData(flow, None, a)))
    /\ UNCHANGED <<adapter, tables, calls>>

GetWebhookSourceVerificationSignature ==
    /\ op = "idle"
    /\ \E h \in WebhookHeaders, s \in WebhookSecrets :
        Called("get_webhook_source_verification_signature",
               [request |-> [headers |-> h], connector_webhook_secrets |-> s],
               get_webhook_source_verification_signature([headers |-> h], s))
    /\ UNCHANGED <<adapter, tables, calls>>

GetWebhookResourceObject ==
    /\ op = "idle"
    /\ \E body \in ResourceBodies :
        Called("get_webhook_resource_object", [body |-> body],
               get_webhook_resource_object(body))
    /\ UNCHANGED <<adapter, tables, calls>>

BuildRequestUnsupported ==
    /\ op = "idle"
    /\ \E flow \in UnsupportedFlows, a \in AuthTypes, c \in ConnectorsConfigs :
        Called("build_request", [req |-> RouterData(flow, None, a), connectors |-> c],
               unsupported_build_request(flow, RouterData(flow, None, a), c))
    /\ UNCHANGED <<adapter, tables, calls>>

GetSpecification ==
    /\ op = "idle"
    /\ \E name \in Specifications :
        /\ Called(name, <<>>, get_specification(name, LazyLock_force(tables)))
        /\ tables' = tables_after(name, tables)
    /\ UNCHANGED <<adapter, calls>>

\* build_request of an implemented flow, on the shared instance
BuildRequest ==
    /\ op = "idle"
    /\ \E flow \in ImplementedFlows, c \in ConnectorsConfigs, a \in RequestAuthTypes :
        \E r \in FlowRequestDatas(flow) :
            Called("build_request", [req |-> RouterData(flow, r, a), connectors |-> c],
                   build_request(adapter, flow, RouterData(flow, r, a), c))
    /\ UNCHANGED <<adapter, tables, calls>>

\* handle_response of Accept, Evidence, Defend or Upload on a router data that
\* carries a payload
SlotHandleResponse ==
    /\ op = "idle"
    /\ \E d \in SlotRouterDatas, r \in SuccessResponses(UploadBodies) :
        /\ op' = "Slot.handle_response"
        /\ data' = Some(d)
        /\ request' = NoRequest
        /\ res' = Some(r)
        /\ Returns(slot_handle_response(d.flow, d, r))
    /\ UNCHANGED <<adapter, tables, calls>>

\* the per-call values are dropped once the result is handed back
Discard ==
    /\ op # "idle"
    /\ op' = "idle"
    /\ data' = None
    /\ request' = NoRequest
    /\ res' = None
    /\ result' = None
    /\ event' = [type_name |-> None, logged |-> None]
    /\ UNCHANGED <<adapter, tables, calls>>

Next ==
    \/ BuildErrorResponse
    \/ RSyncHandleResponse
    \/ PSyncGetUrl
    \/ PSyncHandleResponse
    \/ ValidateConnectorAgainstPaymentRequest
    \/ GetConnectorErrorType
    \/ ValidateFileUpload
    \/ GetWebhookObjectReferenceId
    \/ DisputeHandleResponse
    \/ GetErrorResponse
    \/ GetAuthHeader
    \/ GetHeaders
    \/ GetWebhookSourceVerificationSignature
    \/ GetWebhookResourceObject
    \/ BuildRequestUnsupported
    \/ GetSpecification
    \/ BuildRequest
    \/ SlotHandleResponse
    \/ Discard

Spec == Init /\ [][Next]_vars

(***************************************************************************)
(* Properties.                                                             *)
(***************************************************************************)
AtErrorResponse == op = "build_error_response"

\* the body of the raw response parsed as the error schema (Ok) or not (Err)
UpstreamError == ParseCheckoutErrorResponse(res.val.response)

\* C1: for a non-empty body that parses as the error schema, the reason of the
\* ErrorResponse is the join (" & ") of all upstream error codes in upstream
\* order when the list is present and the upstream error type when it is
\* absent, whichever code the priority selection put in code/message.
C1_ReasonJoinsAllCodes ==
    (AtErrorResponse /\ res.val.response.kind # "empty" /\ UpstreamError.tag = "Ok") =>
        /\ result.val.tag = "Ok"
        /\ result.val.val.reason =
               IF UpstreamError.val.error_codes.some
               THEN Some(join(UpstreamError.val.error_codes.val, " & "))
               ELSE UpstreamError.val.error_type

\* C1 witness: two upstream codes, the second one selected for code/message,
\* the reason naming both in upstream order
C1_Witness ==
    /\ AtErrorResponse
    /\ res.val.response.kind = "json"
    /\ UpstreamError.tag = "Ok"
    /\ UpstreamError.val.error_codes = Some(<<"card_number_invalid", "payment_not_captured">>)
    /\ result.val.tag = "Ok"
    /\ result.val.val.code = "payment_not_captured"
    /\ result.val.val.reason = Some("card_number_invalid & payment_not_captured")

AtEmpty401 ==
    AtErrorResponse /\ res.val.response.kind = "empty" /\ res.val.status_code = 401

\* C2 as stated: an empty 401 body gives, without failing, a one-entry
\* error-codes list and an ErrorResponse of status 401 whose code starts with
\* "invalid_api_key".
C2_Original ==
    AtEmpty401 =>
        /\ result.val.tag = "Ok"
        /\ event.logged.some
        /\ event.logged.val.error_codes.some
        /\ Len(event.logged.val.error_codes.val) = 1
        /\ result.val.val.status_code = 401
        /\ StartsWith(result.val.val.code, "invalid_api_key")

\* C2 amended: an empty 401 body gives, without failing, a one-entry
\* error-codes list and an ErrorResponse of status 401 whose code, message
\* and reason are that entry, "Invalid api key"; "invalid_api_key" is the
\* error type made up next to it, which the ErrorResponse does not carry.
C2_Empty401 ==
    AtEmpty401 =>
        /\ result.val.tag = "Ok"
        /\ event.logged.some
        /\ event.logged.val.error_codes = Some(<<"Invalid api key">>)
        /\ event.logged.val.error_type = Some("invalid_api_key")
        /\ result.val.val.status_code = 401
        /\ result.val.val.code = "Invalid api key"
        /\ result.val.val.message = "Invalid api key"
        /\ result.val.val.reason = Some("Invalid api key")
        /\ ~StartsWith(result.val.val.code, "invalid_api_key")

\* C2 witness: the empty 401 body handled, the made-up entry in the code
C2_Witness ==
    /\ AtEmpty401
    /\ result.val.tag = "Ok"
    /\ result.val.val.code = "Invalid api key"
    /\ Len(event.logged.val.error_codes.val) = 1

AtRSyncResponse == op = "RSync.handle_response"

\* the body of the raw response parsed as the list of action records
UpstreamActions == ParseActionResponseList(res.val.response)

\* the tracked refund action id of the request
TrackedId == data.val.request.connector_refund_id

MatchingActions ==
    {i \in DOMAIN UpstreamActions.val : UpstreamActions.val[i].action_id = TrackedId.val}

\* C3: for a refund-sync body that parses as a list of action records and a
\* tracked refund action id, the refund response is built from one record of
\* the list whose action_id is the tracked id (never from a record of another
\* id, never from the list as a whole); with no such record, the empty list
\* included, the handler fails with ResponseHandlingFailed.
C3_RefundSyncMatchesTrackedAction ==
    (AtRSyncResponse /\ TrackedId.some /\ UpstreamActions.tag = "Ok") =>
        IF MatchingActions = {}
        THEN result.val = Err("ResponseHandlingFailed")
        ELSE /\ result.val.tag = "Ok"
             /\ result.val.val.response.val.val.connector_refund_id = TrackedId.val
             /\ \E i \in MatchingActions :
                    result.val.val.response.val.val =
                        [connector_refund_id |-> UpstreamActions.val[i].action_id,
                         refund_status |-> RefundStatusFrom(UpstreamActions.val[i])]

\* C3 witness: the list [a1, a2] synced for the tracked id a2, the record of
\* a2 returned
C3_Witness ==
    /\ AtRSyncResponse
    /\ TrackedId = Some("act_2")
    /\ UpstreamActions.tag = "Ok"
    /\ Len(UpstreamActions.val) = 2
    /\ UpstreamActions.val[1].action_id = "act_1"
    /\ UpstreamActions.val[1].approved = Some(FALSE)
    /\ UpstreamActions.val[2] = [action_id |-> "act_2", approved |-> Some(TRUE)]
    /\ result.val.tag = "Ok"
    /\ result.val.val.response.val.val =
           [connector_refund_id |-> "act_2", refund_status |-> "Success"]

IsMultipleCaptureSync == data.val.request.sync_type.kind = "MultipleCaptureSync"

\* C4: the payment-sync URL ends with "/actions" exactly when the sync type
\* is the multiple-capture sync, and handle_response parses the type of the
\* list-of-actions schema (checkout::PaymentsResponseEnum) exactly then and
\* that of the single-object schema (PaymentsResponse) otherwise: both branch
\* the same way for the same request.
C4_SyncUrlAndParsingAgree ==
    /\ (op \in {"PSync.get_url", "PSync.handle_response"} /\ request.val.tag = "Ok") =>
           /\ EndsWith(request.val.val, "/actions") <=> IsMultipleCaptureSync
           /\ request.val.val \in
                  {c.checkout.base_url \o "payments/"
                       \o data.val.request.connector_transaction_id.id
                       \o (IF IsMultipleCaptureSync THEN "/actions" ELSE "") :
                   c \in ConnectorsConfigs}
    /\ op = "PSync.handle_response" =>
           /\ event.type_name = Some("checkout::PaymentsResponseEnum")
                  <=> EndsWith(request.val.val, "/actions")
           /\ event.type_name = Some("PaymentsResponse")
                  <=> ~EndsWith(request.val.val, "/actions")
           /\ event.type_name = Some("checkout::PaymentsResponseEnum")
                  <=> IsMultipleCaptureSync

\* C4 witness: a multiple-capture sync sent to .../actions and answered by a
\* list of two actions
C4_Witness ==
    /\ op = "PSync.handle_response"
    /\ IsMultipleCaptureSync
    /\ request.val = Ok("https://api.sandbox.checkout.com/payments/pay_1/actions")
    /\ event.type_name = Some("checkout::PaymentsResponseEnum")
    /\ result.val.tag = "Ok"
    /\ Len(result.val.val.response.val.val.capture_sync_response_list) = 2

SingleObjectShape == ParsePaymentsResponse(res.val.response).tag = "Ok"

ListOfActionsShape == ParseActionResponseList(res.val.response).tag = "Ok"

C5_Witness ==
    /\ op = "PSync.handle_response"
    /\ ~IsMultipleCaptureSync
    /\ ListOfActionsShape
    /\ Len(res.val.response.doc.items) = 2
    /\ result.val = Err("ResponseDeserializationFailed")

AtValidation == op = "validate_connector_against_payment_request"

\* C6: whatever the payment method and payment method type, validation
\* succeeds for a requested capture method of Automatic, SequentialAutomatic,
\* Manual or ManualMultiple, and for Scheduled fails as not implemented,
\* naming the capture method and the connector id "checkout"; the capture
\* method alone decides.
C6_CaptureMethodValidation ==
    (AtValidation /\ data.val.capture_method.some) =>
        /\ data.val.capture_method.val \in
               {"Automatic", "SequentialAutomatic", "Manual", "ManualMultiple"} =>
               result.val = Ok("()")
        /\ data.val.capture_method.val = "Scheduled" =>
               /\ result.val.tag = "Err"
               /\ result.val.err.kind = "NotImplemented"
               /\ result.val.err.capture_method = "Scheduled"
               /\ result.val.err.connector = "checkout"

\* C6 witness: ManualMultiple accepted for a wallet
C6_Witness ==
    /\ AtValidation
    /\ data.val.capture_method = Some("ManualMultiple")
    /\ data.val.payment_method = "Wallet"
    /\ data.val.pmt = Some("ApplePay")
    /\ result.val = Ok("()")

\* C6 witness, the refusal: Scheduled refused for a card
C6_WitnessScheduled ==
    /\ AtValidation
    /\ data.val.capture_method = Some("Scheduled")
    /\ data.val.payment_method = "Card"
    /\ result.val.tag = "Err"
    /\ result.val.err.connector = "checkout"

AtErrorType == op = "get_connector_error_type"

\* C7: get_connector_error_type is a total lookup on the error code alone: it
\* returns one of the four error types for every code, UnknownError for every
\* code that no arm of the table names, and the same type whatever the error
\* message.
C7_ErrorTypeLookupTotal ==
    AtErrorType =>
        /\ result.some
        /\ result.val \in ConnectorErrorTypes
        /\ data.val.error_code \notin ArmCodes => result.val = "UnknownError"
        /\ data.val.error_code \in ArmCodes =>
               \E i \in DOMAIN ErrorTypeArms :
                   /\ ErrorTypeArms[i][1] = data.val.error_code
                   /\ ErrorTypeArms[i][2] = result.val
        /\ \A message \in ErrorMessageInputs :
               get_connector_error_type(data.val.error_code, message) = result.val

\* C7 witness: a code outside the table, with a message that is itself a code
\* of the table, classified UnknownError
C7_Witness ==
    /\ AtErrorType
    /\ data.val.error_code = "payment_not_captured"
    /\ data.val.error_message = "card_expired"
    /\ result.val = "UnknownError"

AtFileUpload == op = "validate_file_upload"

AllowedFileTypes == {"image/jpeg", "image/jpg", "image/png", "application/pdf"}

\* C8: a dispute-evidence upload is accepted exactly when the file has at
\* most 4,000,000 bytes (4,000,000 included) and its MIME type is image/jpeg,
\* image/jpg, image/png or application/pdf; anything else fails with
\* FileValidationFailed and a reason.
C8_FileUploadLimits ==
    (AtFileUpload /\ data.val.purpose = "DisputeEvidence") =>
        IF data.val.file_size <= 4000000 /\ data.val.file_type \in AllowedFileTypes
        THEN result.val = Ok("()")
        ELSE /\ result.val.tag = "Err"
             /\ result.val.err.kind = "FileValidationFailed"
             /\ Len(result.val.err.reason) > 0

\* C8 witness: a PDF of exactly 4,000,000 bytes accepted
C8_Witness ==
    /\ AtFileUpload
    /\ data.val.file_size = 4000000
    /\ data.val.file_type = "application/pdf"
    /\ result.val = Ok("()")

\* C9: the size check does not depend on the MIME check: a file above
\* 4,000,000 bytes fails with FileValidationFailed for every MIME type, and
\* with both the size and the type invalid the failure reported is the size
\* failure.
C9_SizeCheckedFirst ==
    (AtFileUpload /\ data.val.file_size > 4000000) =>
        result.val = Err(FileValidationFailed("file_size exceeded the max file size of 4MB"))

\* C9 witness: 4,500,000 bytes of application/pdf refused for its size
C9_Witness ==
    /\ AtFileUpload
    /\ data.val.file_size = 4500000
    /\ data.val.file_type = "application/pdf"
    /\ result.val.tag = "Err"
    /\ result.val.err.reason = "file_size exceeded the max file size of 4MB"

\* C9 witness, both invalid: an oversized GIF refused for its size
C9_WitnessBothInvalid ==
    /\ AtFileUpload
    /\ data.val.file_size = 4000001
    /\ data.val.file_type = "image/gif"
    /\ result.val.tag = "Err"
    /\ result.val.err.reason = "file_size exceeded the max file size of 4MB"

AtReferenceId == op = "get_webhook_object_reference_id"

\* the webhook body parsed as the envelope (Ok) or not (Err)
Envelope == ParseCheckoutWebhookBody(data.val.body)

ChargebackTypes == {t \in TransactionTypes : is_chargeback_event(t)}

RefundTypes == {t \in TransactionTypes : is_refund_event(t) /\ ~is_chargeback_event(t)}

\* C10: for a body that parses as the envelope, the reference id is a
\* PaymentId for a chargeback-class event, a RefundId for a refund-class event
\* and a PaymentId for any other event, keyed by the merchant reference when
\* there is one and otherwise by the upstream payment id (chargeback), the
\* upstream action id (refund) or the upstream object id (other); a
\* chargeback with neither has no id to return, a refund with neither too.
C10_ReferenceIdByEventClass ==
    (AtReferenceId /\ Envelope.tag = "Ok") =>
        LET type == Envelope.val.transaction_type
            details == Envelope.val.data
        IN  /\ result.val.tag = "Ok" =>
                   result.val.val.kind = IF type \in RefundTypes THEN "RefundId"
                                         ELSE "PaymentId"
            /\ (details.reference.some /\ type \notin RefundTypes) =>
                   result.val = Ok(PaymentId("PaymentAttemptId", details.reference.val))
            /\ (details.reference.some /\ type \in RefundTypes) =>
                   result.val = Ok(RefundId("RefundId", details.reference.val))
            /\ (~details.reference.some /\ type \in ChargebackTypes
                    /\ details.payment_id.some) =>
                   result.val = Ok(PaymentId("ConnectorTransactionId", details.payment_id.val))
            /\ (~details.reference.some /\ type \in RefundTypes /\ details.action_id.some) =>
                   result.val = Ok(RefundId("ConnectorRefundId", details.action_id.val))
            /\ (~details.reference.some /\ type \notin ChargebackTypes \cup RefundTypes) =>
                   result.val = Ok(PaymentId("ConnectorTransactionId", details.id))
            /\ result.val.tag = "Err" =>
                   /\ ~details.reference.some
                   /\ \/ type \in ChargebackTypes /\ ~details.payment_id.some
                      \/ type \in RefundTypes /\ ~details.action_id.some

\* C10 witness: a chargeback without merchant reference and with the upstream
\* payment id "pay_123"
C10_Witness ==
    /\ AtReferenceId
    /\ Envelope.tag = "Ok"
    /\ Envelope.val.transaction_type = "dispute_received"
    /\ ~Envelope.val.data.reference.some
    /\ Envelope.val.data.payment_id = Some("pay_123")
    /\ result.val = Ok(PaymentId("ConnectorTransactionId", "pay_123"))

\* the cases in which a webhook body has no reference id
NoReferenceId ==
    \/ Envelope.tag = "Err"
    \/ /\ Envelope.tag = "Ok"
       /\ ~Envelope.val.data.reference.some
       /\ \/ /\ Envelope.val.transaction_type \in ChargebackTypes
             /\ ~Envelope.val.data.payment_id.some
          \/ /\ Envelope.val.transaction_type \in RefundTypes
             /\ ~Envelope.val.data.action_id.some

\* C11: get_webhook_object_reference_id fails exactly when the body does not
\* parse as the envelope, or the event is a chargeback with neither merchant
\* reference nor upstream payment id, or a refund with neither merchant
\* reference nor upstream action id; every failure is
\* WebhookReferenceIdNotFound, and an event of another class never fails once
\* the body parses.
C11_ReferenceIdFailures ==
    AtReferenceId =>
        /\ (result.val.tag = "Err") <=> NoReferenceId
        /\ result.val.tag = "Err" => result.val = Err("WebhookReferenceIdNotFound")
        /\ (Envelope.tag = "Ok"
                /\ Envelope.val.transaction_type \notin ChargebackTypes \cup RefundTypes) =>
               result.val.tag = "Ok"

\* C11 witness: a body that is not the envelope fails with
\* WebhookReferenceIdNotFound
C11_Witness ==
    /\ AtReferenceId
    /\ Envelope.tag = "Err"
    /\ result.val = Err("WebhookReferenceIdNotFound")

\* C11 witness: a refund with neither merchant reference nor action id fails
C11_WitnessRefund ==
    /\ AtReferenceId
    /\ Envelope.tag = "Ok"
    /\ Envelope.val.transaction_type = "payment_refunded"
    /\ ~Envelope.val.data.reference.some
    /\ ~Envelope.val.data.action_id.some
    /\ result.val = Err("WebhookReferenceIdNotFound")

\* C19: a non-empty body that does not parse as the error schema makes
\* build_error_response fail with ResponseDeserializationFailed, whatever the
\* status code, and no ErrorResponse is returned and no typed body is logged.
C19_UnparsableBodyFails ==
    (AtErrorResponse /\ res.val.response.kind # "empty" /\ UpstreamError.tag = "Err") =>
        /\ result.val = Err("ResponseDeserializationFailed")
        /\ event.logged = None

\* C19 witness: a malformed body under status 401 fails
C19_Witness ==
    /\ AtErrorResponse
    /\ res.val.response = MalformedBody
    /\ res.val.status_code = 401
    /\ result.val = Err("ResponseDeserializationFailed")

\* C19 witness: well-formed JSON that is not the error schema fails too
C19_WitnessJson ==
    /\ AtErrorResponse
    /\ res.val.response.kind = "json"
    /\ UpstreamError.tag = "Err"
    /\ res.val.status_code = 500
    /\ result.val = Err("ResponseDeserializationFailed")

\* C20: for an empty body under a status other than 401, build_error_response
\* returns an ErrorResponse with that status, the "no code" and "no message"
\* sentinels and no reason.
C20_EmptyBodyOtherStatus ==
    (AtErrorResponse /\ res.val.response.kind = "empty" /\ res.val.status_code # 401) =>
        /\ result.val.tag = "Ok"
        /\ result.val.val.status_code = res.val.status_code
        /\ result.val.val.code = NO_ERROR_CODE
        /\ result.val.val.message = NO_ERROR_MESSAGE
        /\ result.val.val.reason = None

\* C20 witness: an empty body under status 500
C20_Witness ==
    /\ AtErrorResponse
    /\ res.val.response = EmptyBody
    /\ res.val.status_code = 500
    /\ result.val.tag = "Ok"
    /\ result.val.val.code = NO_ERROR_CODE
    /\ result.val.val.reason = None

AtDisputeResponse == op = "Dispute.handle_response"

\* C14: the handle_response of the three dispute flows does not depend on the
\* raw response: for every body and status code it returns the router data
\* with a success response made up locally, DisputeAccepted for Accept and
\* DisputeChallenged for Defend and Evidence, without connector status; it
\* never fails, parses nothing and logs nothing.
C14_DisputeResponseSynthesized ==
    AtDisputeResponse =>
        /\ result.val =
               Ok(WithResponse(data.val,
                               Ok([dispute_status |-> IF data.val.flow = "Accept"
                                                      THEN "DisputeAccepted"
                                                      ELSE "DisputeChallenged",
                                   connector_status |-> None])))
        /\ event = [type_name |-> None, logged |-> None]

\* C14 witness: an Accept answered with a malformed body under status 500 is
\* accepted all the same
C14_Witness ==
    /\ AtDisputeResponse
    /\ data.val.flow = "Accept"
    /\ res.val.response = MalformedBody
    /\ res.val.status_code = 500
    /\ result.val.tag = "Ok"
    /\ result.val.val.response.val.val.dispute_status = "DisputeAccepted"

\* C14 witness: a Defend answered with an empty body is challenged
C14_WitnessDefend ==
    /\ AtDisputeResponse
    /\ data.val.flow = "Defend"
    /\ res.val.response = EmptyBody
    /\ result.val.val.response.val.val.dispute_status = "DisputeChallenged"

AtFlowErrorResponse == op = "get_error_response"

\* C18: the get_error_response of every implemented flow returns what
\* build_error_response returns for the same raw response, the same
\* ErrorResponse or the same failure and the same connector event.
C18_ErrorResponseDelegates ==
    AtFlowErrorResponse =>
        /\ result.val = build_error_response(res.val).ret
        /\ event.type_name = build_error_response(res.val).type_name
        /\ event.logged = build_error_response(res.val).logged

\* C18 witness: a dispute flow classifies a parsed error body
C18_Witness ==
    /\ AtFlowErrorResponse
    /\ data.val.flow = "Accept"
    /\ res.val.response.kind = "json"
    /\ result.val.tag = "Ok"
    /\ result.val.val.reason # None
    /\ event.logged # None

\* C18 witness: a dispute flow fails on a body that is not the error schema
C18_WitnessFailure ==
    /\ AtFlowErrorResponse
    /\ data.val.flow = "Defend"
    /\ result.val = Err("ResponseDeserializationFailed")

AtAuthHeader == op = "get_auth_header"

\* C15: get_auth_header fails with FailedToObtainAuthType for every credential
\* that is not of the shape the adapter takes (SignatureKey), and for one of
\* that shape returns exactly one header, Authorization, whose value is
\* "Bearer " followed by the secret of the credential.
C15_AuthHeader ==
    AtAuthHeader =>
        IF data.val.auth_type.kind = "SignatureKey"
        THEN result.val =
                 Ok(<< <<"Authorization", "Bearer " \o data.val.auth_type.api_secret>> >>)
        ELSE result.val = Err("FailedToObtainAuthType")

\* C15 witness: the secret "sk_2" next to the key "pk_1"
C15_Witness ==
    /\ AtAuthHeader
    /\ data.val.auth_type.kind = "SignatureKey"
    /\ data.val.auth_type.api_key = "pk_1"
    /\ result.val = Ok(<< <<"Authorization", "Bearer sk_2">> >>)

\* C15 witness: a credential of another shape that carries a secret all the same
C15_WitnessOtherShape ==
    /\ AtAuthHeader
    /\ data.val.auth_type.kind = "MultiAuthKey"
    /\ result.val = Err("FailedToObtainAuthType")

AtHeaders == op = "get_headers"

\* the values of the Authorization headers among the headers returned
AuthorizationValues ==
    [i \in {j \in DOMAIN result.val.val : result.val.val[j][1] = "Authorization"} |->
        result.val.val[i][2]]

ValidCredential == data.val.connector_auth_type.kind = "SignatureKey"

\* C16 as stated: every implemented flow, Tokenize included, builds for a valid
\* credential exactly one Authorization header, "Bearer " followed by the
\* secret, which is what get_auth_header returns.
C16_Original ==
    (AtHeaders /\ ValidCredential) =>
        /\ result.val.tag = "Ok"
        /\ \E i \in DOMAIN result.val.val :
               /\ DOMAIN AuthorizationValues = {i}
               /\ <<result.val.val[i]>> = get_auth_header(data.val.connector_auth_type).val
               /\ result.val.val[i][2] = "Bearer " \o data.val.connector_auth_type.api_secret

\* C16: every implemented flow builds for a valid credential exactly one
\* Authorization header; for every flow but Tokenize it is the header
\* get_auth_header returns, "Bearer " followed by the secret, and for
\* Tokenize it is "Bearer " followed by the key of the credential.
C16_AuthorizationHeader ==
    (AtHeaders /\ ValidCredential) =>
        /\ result.val.tag = "Ok"
        /\ \E i \in DOMAIN result.val.val :
               /\ DOMAIN AuthorizationValues = {i}
               /\ IF data.val.flow = "PaymentMethodToken"
                  THEN result.val.val[i][2] =
                           "Bearer " \o data.val.connector_auth_type.api_key
                  ELSE /\ <<result.val.val[i]>> =
                              get_auth_header(data.val.connector_auth_type).val
                       /\ result.val.val[i][2] =
                              "Bearer " \o data.val.connector_auth_type.api_secret

\* C16 witness: a capture carries the secret
C16_Witness ==
    /\ AtHeaders
    /\ data.val.flow = "Capture"
    /\ data.val.connector_auth_type.kind = "SignatureKey"
    /\ data.val.connector_auth_type.api_key = "pk_1"
    /\ data.val.connector_auth_type.api_secret = "sk_1"
    /\ result.val = Ok(<< <<"Content-Type", "application/json">>,
                          <<"Authorization", "Bearer sk_1">> >>)

\* C16 witness: a tokenization carries the key
C16_WitnessTokenize ==
    /\ AtHeaders
    /\ data.val.flow = "PaymentMethodToken"
    /\ data.val.connector_auth_type.kind = "SignatureKey"
    /\ data.val.connector_auth_type.api_key = "pk_1"
    /\ data.val.connector_auth_type.api_secret = "sk_1"
    /\ result.val = Ok(<< <<"Content-Type", "application/json">>,
                          <<"Authorization", "Bearer pk_1">> >>)

AtSignature == op = "get_webhook_source_verification_signature"

\* the values of the signature headers of the request
SignatureHeaderValues ==
    {data.val.request.headers[i][2] :
        i \in {j \in DOMAIN data.val.request.headers :
                  data.val.request.headers[j][1] = "cko-signature"}}

\* text is 2n hex digits and bytes are the n bytes they spell
SpellsBytes(text, bytes) ==
    /\ Len(text) = 2 * Len(bytes)
    /\ \A i \in DOMAIN bytes :
           /\ HexDigitValue(SubSeq(text, 2 * i - 1, 2 * i - 1)).some
           /\ HexDigitValue(SubSeq(text, 2 * i, 2 * i)).some
           /\ bytes[i] = 16 * HexDigitValue(SubSeq(text, 2 * i - 1, 2 * i - 1)).val
                           + HexDigitValue(SubSeq(text, 2 * i, 2 * i)).val

ValidHex(text) ==
    /\ Len(text) % 2 = 0
    /\ \A i \in 1..Len(text) : HexDigitValue(SubSeq(text, i, i)).some

\* C12: get_webhook_source_verification_signature succeeds exactly when the
\* signature header is present and its value is valid hex, and then returns
\* the bytes the value spells; when the header is absent or the value is not
\* valid hex it fails with WebhookSignatureNotFound; the webhook secrets have
\* no part in the result.
C12_SignatureFromHeader ==
    AtSignature =>
        /\ (result.val.tag = "Ok") <=> (\E v \in SignatureHeaderValues : ValidHex(v))
        /\ result.val.tag = "Ok" =>
               \A v \in SignatureHeaderValues : SpellsBytes(v, result.val.val)
        /\ result.val.tag = "Err" => result.val = Err("WebhookSignatureNotFound")
        /\ result.val =
               get_webhook_source_verification_signature(
                   data.val.request, [secret |-> "", additional_secret |-> None])

\* C12 witness: the header "DEADBEEF" gives the four bytes de ad be ef, under
\* a secret that is itself valid hex
C12_Witness ==
    /\ AtSignature
    /\ SignatureHeaderValues = {"DEADBEEF"}
    /\ data.val.connector_webhook_secrets.secret = "deadbeef"
    /\ result.val = Ok(<<222, 173, 190, 239>>)

\* C12 witness: hex of odd length
C12_WitnessOdd ==
    /\ AtSignature
    /\ SignatureHeaderValues = {"abc"}
    /\ result.val = Err("WebhookSignatureNotFound")

\* C12 witness: hex under another header name only
C12_WitnessAbsent ==
    /\ AtSignature
    /\ data.val.request.headers = << <<"authorization", "deadbeef">> >>
    /\ result.val = Err("WebhookSignatureNotFound")

AtResourceObject == op = "get_webhook_resource_object"

\* the webhook body parsed for its event type alone (Ok) or not (Err)
EventTypeBody == ParseCheckoutWebhookEventTypeBody(data.val.body)

\* the webhook body parsed as a dispute (Ok) or not (Err)
DisputeBody == ParseCheckoutDisputeWebhookBody(data.val.body)

\* C13: the resource object returned is the payload of the event's category,
\* the dispute data for a chargeback, the refund data for a refund and the
\* payment data for any other event, never the payload of another category;
\* a body whose event type cannot be read, and a chargeback whose body is not
\* a dispute body, fail with WebhookBodyDecodingFailed.
C13_ResourceObjectByEventClass ==
    AtResourceObject =>
        /\ EventTypeBody.tag = "Err" => result.val = Err("WebhookBodyDecodingFailed")
        /\ EventTypeBody.tag = "Ok" =>
               LET type == EventTypeBody.val.transaction_type
               IN  /\ (type \in ChargebackTypes /\ DisputeBody.tag = "Err") =>
                          result.val = Err("WebhookBodyDecodingFailed")
                   /\ (type \in ChargebackTypes /\ DisputeBody.tag = "Ok") =>
                          result.val = Ok([kind |-> "CheckoutDisputeWebhookData",
                                           dispute |-> DisputeBody.val.data])
                   /\ result.val.tag = "Ok" =>
                          result.val.val.kind =
                              IF type \in ChargebackTypes THEN "CheckoutDisputeWebhookData"
                              ELSE IF type \in RefundTypes THEN "RefundResponse"
                              ELSE "PaymentsResponse"

\* C13 witness: a refund event gives the refund payload
C13_Witness ==
    /\ AtResourceObject
    /\ EventTypeBody.tag = "Ok"
    /\ EventTypeBody.val.transaction_type = "payment_refunded"
    /\ result.val.tag = "Ok"
    /\ result.val.val.kind = "RefundResponse"
    /\ result.val.val.action_id = "act_1"

\* C13 witness: a chargeback gives the dispute data
C13_WitnessDispute ==
    /\ AtResourceObject
    /\ EventTypeBody.tag = "Ok"
    /\ EventTypeBody.val.transaction_type = "dispute_received"
    /\ result.val.tag = "Ok"
    /\ result.val.val.dispute.amount = 1050

\* C13 witness: a chargeback whose body is the envelope but no dispute body
C13_WitnessNoDisputeBody ==
    /\ AtResourceObject
    /\ ParseCheckoutWebhookBody(data.val.body).tag = "Ok"
    /\ EventTypeBody.val.transaction_type = "dispute_won"
    /\ DisputeBody.tag = "Err"
    /\ result.val = Err("WebhookBodyDecodingFailed")

\* C13 witness: any other event gives the payment payload
C13_WitnessPayment ==
    /\ AtResourceObject
    /\ EventTypeBody.tag = "Ok"
    /\ EventTypeBody.val.transaction_type = "payment_captured"
    /\ result.val.tag = "Ok"
    /\ result.val.val.kind = "PaymentsResponse"

AtUnsupportedRequest == op = "build_request" /\ data.val.req.flow \in UnsupportedFlows

\* the flows whose impl block overrides nothing
EmptyImplFlows == UnsupportedFlows \ {"SetupMandate"}

\* the words by which a message names a flow
FlowWords ==
    [Session |-> "Session", AccessTokenAuth |-> "Access Token",
     SetupMandate |-> "Setup Mandate", Retrieve |-> "Retrieve"]

\* word occurs in text
Contains(text, word) ==
    \E i \in 1..(Len(text) - Len(word) + 1) : SubSeq(text, i, i + Len(word) - 1) = word

C17_Witness ==
    /\ AtUnsupportedRequest
    /\ data.val.req.flow = "SetupMandate"
    /\ data.val.req.connector_auth_type.kind = "SignatureKey"
    /\ result.val = Err([kind |-> "NotImplemented",
                         message |-> "Setup Mandate flow for Checkout"])

\* the upstream error codes of a parsed error body that carries some
UpstreamCodeList == UpstreamError.val.error_codes.val

\* the rank the priority sort gives the i-th upstream code
UpstreamRank(i) ==
    ErrorTypeRank(get_connector_error_type(UpstreamCodeList[i], UpstreamCodeList[i]))

\* C21: when a parsed error body carries one or more error codes, the code
\* and the message of the ErrorResponse are those of one member of the
\* upstream list, the first of the members that the priority ranking puts
\* foremost; a non-empty list always gives a pair of its own, never the
\* sentinels.
C21_PrioritySelection ==
    (AtErrorResponse /\ res.val.response.kind # "empty" /\ UpstreamError.tag = "Ok"
        /\ UpstreamError.val.error_codes.some /\ Len(UpstreamCodeList) > 0) =>
        /\ result.val.tag = "Ok"
        /\ \E i \in DOMAIN UpstreamCodeList :
               /\ \A j \in DOMAIN UpstreamCodeList : UpstreamRank(i) <= UpstreamRank(j)
               /\ \A j \in 1..(i - 1) : UpstreamRank(i) < UpstreamRank(j)
               /\ result.val.val.code = UpstreamCodeList[i]
               /\ result.val.val.message = UpstreamCodeList[i]
        /\ result.val.val.code # NO_ERROR_CODE
        /\ result.val.val.message # NO_ERROR_MESSAGE

\* C21 witness: of a user error followed by a business error, both of the
\* adapter's table, the first is surfaced
C21_Witness ==
    /\ AtErrorResponse
    /\ res.val.response.kind = "json"
    /\ UpstreamError.tag = "Ok"
    /\ UpstreamError.val.error_codes.some
    /\ Len(UpstreamCodeList) = 2
    /\ get_connector_error_type(UpstreamCodeList[1], UpstreamCodeList[1]) = "BusinessError"
    /\ get_connector_error_type(UpstreamCodeList[2], UpstreamCodeList[2]) = "UserError"
    /\ result.val.val.code = UpstreamCodeList[2]

\* C21 witness: a code outside the table goes before one of the table
C21_WitnessUnknown ==
    /\ AtErrorResponse
    /\ res.val.response.kind = "json"
    /\ UpstreamError.tag = "Ok"
    /\ UpstreamError.val.error_codes = Some(<<"card_number_invalid", "payment_not_captured">>)
    /\ result.val.val.code = "payment_not_captured"
    /\ result.val.val.message = "payment_not_captured"

\* C28: refund sync reads the tracked refund id before it parses the body:
\* without a connector refund id it fails with MissingConnectorRefundID for
\* every body, parsing or not, and parses and logs nothing; with one, a body
\* that does not parse fails with ResponseDeserializationFailed, before any
\* search for the id.
C28_RefundIdReadFirst ==
    AtRSyncResponse =>
        /\ ~TrackedId.some =>
               /\ result.val = Err("MissingConnectorRefundID")
               /\ event = [type_name |-> None, logged |-> None]
        /\ (TrackedId.some /\ UpstreamActions.tag = "Err") =>
               /\ result.val = Err("ResponseDeserializationFailed")
               /\ event.logged = None

\* C28 witness: no tracked id and a body that does not parse
C28_Witness ==
    /\ AtRSyncResponse
    /\ ~TrackedId.some
    /\ res.val.response = MalformedBody
    /\ result.val = Err("MissingConnectorRefundID")

\* C28 witness: no tracked id and a list without any record to find
C28_WitnessEmptyList ==
    /\ AtRSyncResponse
    /\ ~TrackedId.some
    /\ UpstreamActions = Ok(<<>>)
    /\ result.val = Err("MissingConnectorRefundID")

\* C28 witness: a tracked id and a body that does not parse
C28_WitnessUnparsable ==
    /\ AtRSyncResponse
    /\ TrackedId = Some("act_1")
    /\ UpstreamActions.tag = "Err"
    /\ result.val = Err("ResponseDeserializationFailed")

\* C29: a parsed error body whose list of error codes is present and empty
\* gives the "no code" and "no message" sentinels and the empty string as
\* reason, whatever the upstream error type; the error type is the reason
\* only of a body without list.
C29_EmptyCodeList ==
    (AtErrorResponse /\ res.val.response.kind # "empty" /\ UpstreamError.tag = "Ok") =>
        /\ UpstreamError.val.error_codes = Some(<<>>) =>
               /\ result.val.tag = "Ok"
               /\ result.val.val.code = NO_ERROR_CODE
               /\ result.val.val.message = NO_ERROR_MESSAGE
               /\ result.val.val.reason = Some("")
        /\ (UpstreamError.val.error_type.some
                /\ result.val.val.reason = UpstreamError.val.error_type) =>
               ~UpstreamError.val.error_codes.some

\* C29 witness: an empty list next to an error type
C29_Witness ==
    /\ AtErrorResponse
    /\ res.val.response.kind = "json"
    /\ UpstreamError.tag = "Ok"
    /\ UpstreamError.val.error_codes = Some(<<>>)
    /\ UpstreamError.val.error_type = Some("request_invalid")
    /\ result.val.val.code = NO_ERROR_CODE
    /\ result.val.val.reason = Some("")

\* the reference id of the webhook whose resource object was asked for
ReferenceIdOfBody == get_webhook_object_reference_id(data.val.body)

\* C27: the two webhook classifiers agree on the class of an event: for
\* every body on which both succeed, the reference id is a RefundId exactly
\* when the resource object is the refund payload, and the resource object is
\* the dispute payload exactly when the event is a chargeback, whose
\* reference id is a PaymentId.
C27_ClassifiersAgree ==
    (AtResourceObject /\ result.val.tag = "Ok" /\ ReferenceIdOfBody.tag = "Ok") =>
        /\ (ReferenceIdOfBody.val.kind = "RefundId") <=>
               (result.val.val.kind = "RefundResponse")
        /\ (EventTypeBody.val.transaction_type \in ChargebackTypes) <=>
               (result.val.val.kind = "CheckoutDisputeWebhookData")
        /\ EventTypeBody.val.transaction_type \in ChargebackTypes =>
               ReferenceIdOfBody.val.kind = "PaymentId"

\* C27 witness: a refund, RefundId and refund payload
C27_Witness ==
    /\ AtResourceObject
    /\ result.val.tag = "Ok"
    /\ ReferenceIdOfBody.tag = "Ok"
    /\ ReferenceIdOfBody.val.kind = "RefundId"
    /\ result.val.val.kind = "RefundResponse"

\* C27 witness: a chargeback, PaymentId and dispute payload
C27_WitnessChargeback ==
    /\ AtResourceObject
    /\ result.val.tag = "Ok"
    /\ ReferenceIdOfBody = Ok(PaymentId("ConnectorTransactionId", "pay_123"))
    /\ result.val.val.kind = "CheckoutDisputeWebhookData"

AtSupportedPaymentMethods == op = "get_supported_payment_methods"

\* the capture methods validation accepts, whatever the payment method
AcceptedCaptureMethods ==
    {method \in CaptureMethods :
        \A payment_method \in PaymentMethods, pmt \in PaymentMethodTypes :
            validate_connector_against_payment_request(
                Some(method), payment_method, Some(pmt)).tag = "Ok"}

\* C30: the table of supported payment methods and the capture-method
\* validation agree: every capture method an entry of the table lists is
\* accepted by validation for the payment method of the entry, every capture
\* method validation accepts is listed by every entry, and no entry lists
\* Scheduled.
C30_TableAgreesWithValidation ==
    AtSupportedPaymentMethods =>
        /\ result.val.some
        /\ Len(result.val.val) > 0
        /\ \A i \in DOMAIN result.val.val :
               LET entry == result.val.val[i]
                   listed == {entry.details.supported_capture_methods[k] :
                                 k \in DOMAIN entry.details.supported_capture_methods}
               IN  /\ \A method \in listed :
                          validate_connector_against_payment_request(
                              Some(method), entry.payment_method,
                              Some(entry.payment_method_type)) = Ok("()")
                   /\ AcceptedCaptureMethods \subseteq listed
                   /\ "Scheduled" \notin listed

\* C30 witness: the table returned, four entries, ManualMultiple listed for
\* Apple Pay
C30_Witness ==
    /\ AtSupportedPaymentMethods
    /\ result.val.some
    /\ Len(result.val.val) = 4
    /\ result.val.val[4].payment_method_type = "ApplePay"
    /\ \E k \in 1..4 : result.val.val[4].details.supported_capture_methods[k] = "ManualMultiple"
    /\ "ManualMultiple" \in AcceptedCaptureMethods

(***************************************************************************)
(* Building the outbound request.                                          *)
(***************************************************************************)
\* build_request of an implemented flow has returned
AtBuildRequest == op = "build_request" /\ data.val.req.flow \in ImplementedFlows

\* what the flow's three functions return for the input of the call
BuiltUrl == get_url(data.val.req.flow, data.val.req, data.val.connectors)

BuiltHeaders == get_headers(data.val.req.flow, data.val.req)

BuiltBody ==
    IF data.val.req.flow \in FlowsWithBody
    THEN get_request_body(adapter, data.val.req.flow, data.val.req)
    ELSE Ok(None)

\* the three in the order the builder asks for them, and those that failed
BuiltParts == <<BuiltUrl, BuiltHeaders, BuiltBody>>

FailedParts == {i \in 1..3 : BuiltParts[i].tag = "Err"}

\* C22: for every implemented flow, build_request returns one request
\* descriptor whose URL, headers and body are what the flow's get_url,
\* get_headers and get_request_body return for the same input (no body for a
\* flow without payload); when one of the three fails, build_request returns
\* that failure, the first in builder order, and no descriptor.
C22_BuildRequestAssembles ==
    AtBuildRequest =>
        IF FailedParts = {}
        THEN /\ result.val.tag = "Ok"
             /\ result.val.val.some
             /\ result.val.val.val.method = http_method(data.val.req.flow)
             /\ result.val.val.val.url = BuiltUrl.val
             /\ result.val.val.val.headers = BuiltHeaders.val
             /\ result.val.val.val.body =
                    IF data.val.req.flow \in FlowsWithBody THEN Some(BuiltBody.val)
                    ELSE None
        ELSE result.val = BuiltParts[CHOOSE i \in FailedParts :
                                         \A j \in FailedParts : i <= j]

C22_Witness ==
    /\ AtBuildRequest
    /\ data.val.req.flow = "Capture"
    /\ result.val.tag = "Ok"
    /\ result.val.val.val.method = "Post"
    /\ result.val.val.val.url = "https://api.checkout.com/payments/pay_2/captures"
    /\ result.val.val.val.headers =
           << <<CONTENT_TYPE, "application/json">>, <<AUTHORIZATION, "Bearer sk_1">> >>
    /\ result.val.val.val.body.some

C22_WitnessMissingTransactionId ==
    /\ AtBuildRequest
    /\ data.val.req.flow = "PSync"
    /\ BuiltHeaders.tag = "Ok"
    /\ result.val = Err("MissingConnectorTransactionID")

C22_WitnessAuthType ==
    /\ AtBuildRequest
    /\ data.val.req.flow = "Void"
    /\ BuiltUrl.tag = "Ok"
    /\ result.val = Err("FailedToObtainAuthType")

C22_WitnessBody ==
    /\ AtBuildRequest
    /\ data.val.req.flow = "Authorize"
    /\ BuiltUrl.tag = "Ok"
    /\ BuiltHeaders.tag = "Ok"
    /\ result.val = Err("NotImplemented")

C22_WitnessNoBody ==
    /\ AtBuildRequest
    /\ data.val.req.flow = "Defend"
    /\ result.val.tag = "Ok"
    /\ result.val.val.val.body = None

\* the flows whose URL carries an id of the request, and that id
FlowsWithTransactionId == {"Capture", "Void", "Execute", "RSync"}

UrlId(req) ==
    CASE req.flow \in FlowsWithTransactionId -> req.request.connector_transaction_id
      [] req.flow \in DisputeFlows -> req.request.connector_dispute_id
      [] OTHER -> ""

\* the fixed path of each flow around the id
UrlPath(flow, embedded) ==
    CASE flow = "Capture" -> "payments/" \o embedded \o "/captures"
      [] flow = "Void" -> "payments/" \o embedded \o "/voids"
      [] flow = "Execute" -> "payments/" \o embedded \o "/refunds"
      [] flow = "RSync" -> "/payments/" \o embedded \o "/actions"
      [] flow = "Accept" -> "disputes/" \o embedded \o "/accept"
      [] flow \in {"Evidence", "Defend"} -> "disputes/" \o embedded \o "/evidence"
      [] flow = "PaymentMethodToken" -> "tokens"
      [] flow = "Upload" -> "files"

FlowsWithFixedPath == FlowsWithTransactionId \cup DisputeFlows \cup {"PaymentMethodToken", "Upload"}

\* C23: the URL of Capture, Void, Refund, Refund sync, Dispute accept,
\* Evidence submit, Defend, Tokenize and File upload is the configured base
\* URL followed by the flow's fixed path with the request's own id embedded
\* (Refund sync with its leading slash), and no other part of the request,
\* credential included, changes it.
C23_UrlPatterns ==
    AtBuildRequest /\ data.val.req.flow \in FlowsWithFixedPath =>
        /\ BuiltUrl = Ok(data.val.connectors.checkout.base_url
                             \o UrlPath(data.val.req.flow, UrlId(data.val.req)))
        /\ result.val.tag = "Ok" => result.val.val.val.url = BuiltUrl.val
        /\ \A r \in FlowRequestDatas(data.val.req.flow), a \in RequestAuthTypes :
               UrlId(RouterData(data.val.req.flow, r, a)) = UrlId(data.val.req)
                   => get_url(data.val.req.flow, RouterData(data.val.req.flow, r, a),
                              data.val.connectors) = BuiltUrl

C23_Witness ==
    /\ AtBuildRequest
    /\ data.val.req.flow = "RSync"
    /\ result.val.tag = "Ok"
    /\ result.val.val.val.url = "https://api.sandbox.checkout.com//payments/pay_1/actions"

C23_WitnessEvidence ==
    /\ AtBuildRequest
    /\ data.val.req.flow = "Evidence"
    /\ data.val.req.request.uncategorized_text # None
    /\ result.val.tag = "Ok"
    /\ result.val.val.val.url = "https://api.checkout.com/disputes/dsp_2/evidence"

\* the flows whose body carries a converted amount, and that amount
FlowsWithAmount == {"Authorize", "Capture", "Execute"}

ConvertedAmount ==
    convert_amount(adapter.amount_converter,
                   request_amount(data.val.req.flow, data.val.req),
                   data.val.req.request.currency)

BodyAmount ==
    IF data.val.req.flow = "Execute" THEN result.val.val.val.body.val.value.amount.val
    ELSE result.val.val.val.body.val.value.amount

\* the converted amount as a fraction: a count of minor units is itself, an
\* amount in major units has the currency's decimals
AmountNumerator(amount, currency) ==
    IF amount.unit = "Minor" THEN amount.value
    ELSE amount.whole * Pow10(CurrencyExponent(currency)) + amount.fraction

AmountDenominator(amount, currency) ==
    IF amount.unit = "Minor" THEN 1 ELSE Pow10(CurrencyExponent(currency))

\* the way back: the minor units that a reader gets who takes the number in
\* the unit the adapter declares are minor_units
ReadsBackAs(declared_unit, amount, currency, minor_units) ==
    AmountNumerator(amount, currency)
            * (IF declared_unit = "Major" THEN Pow10(CurrencyExponent(currency)) ELSE 1)
        = minor_units * AmountDenominator(amount, currency)

C26_WitnessRefund ==
    /\ AtBuildRequest
    /\ data.val.req.flow = "Execute"
    /\ data.val.req.request.currency = "KWD"
    /\ result.val.tag = "Ok"
    /\ BodyAmount = MinorUnit(1)

(***************************************************************************)
(* The response slot.                                                      *)
(***************************************************************************)
AtSlotResponse == op = "Slot.handle_response"

\* C24: the router data that the handle_response of Accept, Defend, Evidence
\* and Upload returns equals the input router data in every field other than
\* response (flow, request payload and credential kept, no field added or
\* dropped); the input still has its response slot as it was handed in, and
\* the returned slot holds the one response of the invocation.
C24_OnlyResponseSlotWritten ==
    AtSlotResponse /\ result.val.tag = "Ok" =>
        /\ DOMAIN result.val.val = DOMAIN data.val
        /\ \A f \in DOMAIN data.val \ {"response"} : result.val.val[f] = data.val[f]
        /\ data.val \in SlotRouterDatas
        /\ data.val.response = None
        /\ result.val.val.response.some
        /\ result.val.val.response.val.tag = "Ok"
        /\ result.val.val =
               [data.val EXCEPT !.response = Some(result.val.val.response.val)]

C24_Witness ==
    /\ AtSlotResponse
    /\ data.val.flow = "Upload"
    /\ data.val.request.file_key = "file_2"
    /\ data.val.connector_auth_type.api_secret = "sk_2"
    /\ result.val.tag = "Ok"
    /\ result.val.val.request.file_key = "file_2"
    /\ result.val.val.connector_auth_type.api_secret = "sk_2"
    /\ result.val.val.response = Some(Ok([provider_file_id |-> "file_9"]))

C24_WitnessAccept ==
    /\ AtSlotResponse
    /\ data.val.flow = "Accept"
    /\ data.val.request.connector_dispute_id = "dsp_2"
    /\ result.val.tag = "Ok"
    /\ result.val.val.request.connector_dispute_id = "dsp_2"
    /\ result.val.val.response.some

C24_WitnessUnparsable ==
    /\ AtSlotResponse
    /\ data.val.flow = "Upload"
    /\ result.val = Err("ResponseDeserializationFailed")
    /\ data.val.response = None

(***************************************************************************)
(* Handlers side by side on the one instance.                              *)
(*                                                                         *)
(* Each thread invokes a handler, reads what the handler reads of the      *)
(* shared instance and of the statics, and returns. The table of supported *)
(* payment methods is built by the first thread that dereferences it; a    *)
(* thread that arrives while it is being built waits for it.               *)
(***************************************************************************)
\* a plausible slip: a handler that leaves another strategy in the instance
self_after_call_switching(self) == [self EXCEPT !.amount_converter = "StringMajorUnitForConnector"]

\* the instance after a handler has run on &self: the struct has one field, a
\* shared reference, and no handler takes it mutably
self_after_call(self) == self

\* the invocations the threads choose from
ConcurrentCalls ==
    [name : Specifications]
        \cup [name : {"build_request"},
              req : {RouterData("Capture", r, a) :
                        r \in [connector_transaction_id : TransactionIds,
                               minor_amount_to_capture : Amounts, currency : {"USD"}],
                        a \in {x \in AuthTypes : x.kind = "TemporaryAuth"
                                  \/ (x.kind = "SignatureKey" /\ x.api_key = "pk_1"
                                          /\ x.api_secret = "sk_1")}},
              connectors : {c \in ConnectorsConfigs :
                               c.checkout.base_url = "https://api.checkout.com/"}]

\* what an invocation returns from the instance and the table it reads
call_return(call, self, lazy) ==
    IF call.name = "build_request"
    THEN build_request(self, call.req.flow, call.req, call.connectors)
    ELSE get_specification(call.name, lazy)

\* the invocation run alone, on the instance as constructed and statics
\* nobody has touched
call_return_alone(call) ==
    call_return(call, Checkout_new, LazyLock_force(LazyLock_new))

\* a thread is building the table
Initializing == \E t \in Threads : calls[t].at = "initializing"

Invoke ==
    /\ \E t \in Threads, call \in ConcurrentCalls :
        /\ calls[t].at = "idle"
        /\ calls' = [calls EXCEPT ![t] = [at |-> "invoked", call |-> call]]
    /\ UNCHANGED <<op, data, request, res, result, event, adapter, tables>>

\* a handler that does not touch the lazily built table runs to its end
RunHandler ==
    /\ \E t \in Threads :
        /\ calls[t].at = "invoked"
        /\ calls[t].call.name # "get_supported_payment_methods"
        /\ calls' = [calls EXCEPT ![t] =
                        [at |-> "returned", call |-> calls[t].call,
                         ret |-> call_return(calls[t].call, adapter, tables)]]
        /\ adapter' = self_after_call(adapter)
    /\ UNCHANGED <<op, data, request, res, result, event, tables>>

\* the first dereference of the table: the thread starts building it
ForceBegin ==
    /\ \E t \in Threads :
        /\ calls[t].at = "invoked"
        /\ calls[t].call.name = "get_supported_payment_methods"
        /\ ~tables.some
        /\ ~Initializing
        /\ calls' = [calls EXCEPT ![t] = [at |-> "initializing", call |-> calls[t].call]]
    /\ UNCHANGED <<op, data, request, res, result, event, adapter, tables>>

\* the building thread stores the table and returns it
ForceEnd ==
    /\ \E t \in Threads :
        /\ calls[t].at = "initializing"
        /\ tables' = LazyLock_force(tables)
        /\ calls' = [calls EXCEPT ![t] =
                        [at |-> "returned", call |-> calls[t].call,
                         ret |-> call_return(calls[t].call, adapter, tables')]]
        /\ adapter' = self_after_call(adapter)
    /\ UNCHANGED <<op, data, request, res, result, event>>

\* a dereference of the table once it is built
ReadTable ==
    /\ \E t \in Threads :
        /\ calls[t].at = "invoked"
        /\ calls[t].call.name = "get_supported_payment_methods"
        /\ tables.some
        /\ calls' = [calls EXCEPT ![t] =
                        [at |-> "returned", call |-> calls[t].call,
                         ret |-> call_return(calls[t].call, adapter, tables)]]
        /\ adapter' = self_after_call(adapter)
    /\ UNCHANGED <<op, data, request, res, result, event, tables>>

\* the caller takes the result
TakeResult ==
    /\ \E t \in Threads :
        /\ calls[t].at = "returned"
        /\ calls' = [calls EXCEPT ![t] = NoCall]
    /\ UNCHANGED <<op, data, request, res, result, event, adapter, tables>>

NextConcurrent ==
    \/ Invoke \/ RunHandler \/ ForceBegin \/ ForceEnd \/ ReadTable \/ TakeResult

SpecConcurrent == Init /\ [][NextConcurrent]_vars

\* C25: whatever the interleaving of the invocations on the one instance, an
\* invocation that has returned has the result it has when run alone on the
\* same inputs; the instance is as constructed; the table of supported
\* payment methods, once built, is the one table, for the thread that built
\* it and for every thread that raced with it; and two threads that asked
\* for the same thing hold the same answer.
C25_NoSharedMutableState ==
    /\ adapter = Checkout_new
    /\ tables.some => tables.val = CHECKOUT_SUPPORTED_PAYMENT_METHODS
    /\ \A t \in Threads :
           calls[t].at = "returned" => calls[t].ret = call_return_alone(calls[t].call)
    /\ \A t, u \in Threads :
           calls[t].at = "returned" /\ calls[u].at = "returned"
               /\ calls[t].call.name = calls[u].call.name
               /\ calls[t].call.name \in Specifications
               => calls[t].ret = calls[u].ret

\* both threads raced on the first access of the table and hold it
C25_Witness ==
    /\ calls[1].at = "returned"
    /\ calls[2].at = "returned"
    /\ calls[1].call.name = "get_supported_payment_methods"
    /\ calls[2].call.name = "get_supported_payment_methods"
    /\ calls[1].ret = Some(CHECKOUT_SUPPORTED_PAYMENT_METHODS)
    /\ calls[2].ret = calls[1].ret

\* a request is built while the other thread is building the table
C25_WitnessInterleaved ==
    /\ calls[1].at = "initializing"
    /\ calls[2].at = "returned"
    /\ calls[2].call.name = "build_request"
    /\ calls[2].ret.tag = "Ok"

\* two requests built side by side, with different inputs and outcomes
C25_WitnessTwoRequests ==
    /\ calls[1].at = "returned"
    /\ calls[2].at = "returned"
    /\ calls[1].call.name = "build_request"
    /\ calls[2].call.name = "build_request"
    /\ calls[1].ret.tag = "Ok"
    /\ calls[2].ret = Err("FailedToObtainAuthType")

====
